---------------------------- MODULE Spec2Model ----------------------------
(***************************************************************************)
(* State-machine model of the XLSX writer of kvotab.github.io              *)
(* (xlsxwrite.js): the primitive codecs (xlColumn, xlCell2Ind), the        *)
(* workbook / sheet model (write, writeData, setColumn, setRow,            *)
(* mergeRange, insertChart), the shared string table (_processCell) and    *)
(* the style registry (Format, addFormat).                                 *)
(*                                                                         *)
(* Conventions.                                                            *)
(*  - A JavaScript string is a sequence of character codes when its        *)
(*    characters are inspected (cell references, column letters), and a    *)
(*    sequence of text atoms when only its first character and its         *)
(*    emptiness are inspected (cell values): "=A1" is <<"=", "A1">>.       *)
(*  - A JavaScript value is a record [t, n, x, s]: t is the typeof tag     *)
(*    ("null" and "undef" for the two empty values), n the integer of a    *)
(*    finite number or the 0/1 of a boolean, x the name of a non-integer   *)
(*    double ("Infinity", "NaN", ...), s the text of a string.             *)
(*  - Array indices are 0-based in the source and 1-based in sequences:    *)
(*    data[r][c] of the source is data[r + 1][c + 1] here.                 *)
(***************************************************************************)
EXTENDS Integers, Sequences, FiniteSets, TLC

(***************************************************************************)
(* Bounds of the model                                                     *)
(***************************************************************************)
MaxSheetOps == 2
MaxStyleOps == 3
MaxCellOps == 2
MaxNumberOps == 3
MaxColumn == 16384
MaxAxisId == 4
MaxSaveOps == 3
MaxSaveAsOps == 3
MaxChartOps == 4
MaxStyledOps == 4
MaxMessages == 4

(***************************************************************************)
(* Program constants                                                       *)
(***************************************************************************)
CUSTOM_NUM_FMT_START_ID == 164
XL_CACHE_LIMIT == 702

(***************************************************************************)
(* Character codes                                                         *)
(***************************************************************************)
IsUpper(ch) == ch >= 65 /\ ch <= 90
IsLower(ch) == ch >= 97 /\ ch <= 122
IsLetter(ch) == IsUpper(ch) \/ IsLower(ch)
IsDigit(ch) == ch >= 48 /\ ch <= 57
ToUpperCase(ch) == IF IsLower(ch) THEN ch - 32 ELSE ch

(***************************************************************************)
(* xlColumn: column number -> letters.  ColumnLetters is the loop of the   *)
(* function, xlColumnResult its value given the cache, xlColumnCache the   *)
(* cache it leaves.                                                        *)
(***************************************************************************)
\* the loop without its `col--`: base 26 with a zero digit
RECURSIVE ColumnLettersZeroDigit(_)
ColumnLettersZeroDigit(col) ==
    IF col <= 0 THEN <<>>
    ELSE ColumnLettersZeroDigit(col \div 26) \o <<65 + (col % 26)>>

RECURSIVE ColumnLetters(_)
ColumnLetters(col) ==
    IF col <= 0 THEN <<>>
    ELSE ColumnLetters((col - 1) \div 26) \o <<65 + ((col - 1) % 26)>>

\* a cached value is returned only when it is truthy (a non-empty string)
xlColumnResult(cache, column) ==
    IF column \in DOMAIN cache /\ cache[column] # <<>>
    THEN cache[column]
    ELSE ColumnLetters(column)

xlColumnCache(cache, column) ==
    IF column \in DOMAIN cache /\ cache[column] # <<>>
    THEN cache
    ELSE IF column <= XL_CACHE_LIMIT
         THEN [k \in DOMAIN cache \cup {column} |->
                  IF k = column THEN ColumnLetters(column) ELSE cache[k]]
         ELSE cache

(***************************************************************************)
(* xlCell2Ind on a string: /^([A-Z]+)(\d+)$/i, then base-26 letters and    *)
(* parseInt of the digits; { row: 1, column: 1 } when there is no match.   *)
(***************************************************************************)
RECURSIVE LetterPrefixLen(_, _)
LetterPrefixLen(str, i) ==
    IF i <= Len(str) /\ IsLetter(str[i]) THEN LetterPrefixLen(str, i + 1)
    ELSE i - 1

RefMatches(str) ==
    LET k == LetterPrefixLen(str, 1)
    IN  /\ k >= 1
        /\ k < Len(str)
        /\ \A i \in (k + 1)..Len(str) : IsDigit(str[i])

RECURSIVE LettersToColumn(_, _, _)
LettersToColumn(letters, i, column) ==
    IF i > Len(letters) THEN column
    ELSE LettersToColumn(letters, i + 1,
                         column * 26 + (ToUpperCase(letters[i]) - 64))

RECURSIVE ParseInt(_, _, _)
ParseInt(digits, i, acc) ==
    IF i > Len(digits) THEN acc
    ELSE ParseInt(digits, i + 1, acc * 10 + (digits[i] - 48))

xlCell2Ind(xlCell) ==
    IF ~RefMatches(xlCell) THEN [row |-> 1, column |-> 1]
    ELSE LET k == LetterPrefixLen(xlCell, 1)
         IN  [row    |-> ParseInt(SubSeq(xlCell, k + 1, Len(xlCell)), 1, 0),
              column |-> LettersToColumn(SubSeq(xlCell, 1, k), 1, 0)]

(***************************************************************************)
(* Maps (JavaScript Map and plain-object tables) are functions; the empty  *)
(* map is the function with the empty domain.                              *)
(***************************************************************************)
EmptyMap == <<>>
MapPut(m, k, v) == [x \in DOMAIN m \cup {k} |-> IF x = k THEN v ELSE m[x]]

(***************************************************************************)
(* Format.  A property that the caller leaves out is modelled by the falsy *)
(* value of its type ("" / 0 / FALSE): the constructor reads every         *)
(* property through `||`, which treats the two alike.  `locked` is read    *)
(* with `!== undefined` and keeps three values.  Null is the null of a     *)
(* nullable text field.                                                    *)
(***************************************************************************)
Null == "<null>"

NoProperties ==
    [font_name |-> "", font_size |-> 0, font_color |-> "", bold |-> FALSE,
     italic |-> FALSE, underline |-> 0, font_strikeout |-> FALSE,
     font_script |-> 0, num_format |-> "", num_format_index |-> 0,
     align |-> "", valign |-> "", rotation |-> 0, text_wrap |-> FALSE,
     shrink |-> FALSE, indent |-> 0, border |-> 0, border_color |-> "",
     left |-> 0, left_color |-> "", right |-> 0, right_color |-> "",
     top |-> 0, top_color |-> "", bottom |-> 0, bottom_color |-> "",
     diagonal_type |-> 0, diagonal_border |-> 0, diagonal_color |-> "",
     pattern |-> 0, bg_color |-> "", fg_color |-> "",
     locked |-> "undefined", hidden |-> FALSE]

\* a || b on texts and on numbers; a || null on texts
OrText(a, b) == IF a # "" THEN a ELSE b
OrNum(a, b) == IF a # 0 THEN a ELSE b
OrNull(a) == IF a # "" THEN a ELSE Null
OrNullText(a, b) == IF a # Null THEN a ELSE b

\* new Format(properties), xfIndex still null (-1)
Format(properties) ==
    LET border      == properties.border
        borderColor == OrNull(properties.border_color)
        side(s)     == IF border # 0 THEN OrNum(s, border) ELSE s
        sideColor(c) == IF borderColor # Null
                        THEN OrNullText(OrNull(c), borderColor)
                        ELSE OrNull(c)
    IN  [fontName       |-> OrText(properties.font_name, "Calibri"),
         fontSize       |-> OrNum(properties.font_size, 11),
         fontColor      |-> OrNull(properties.font_color),
         bold           |-> properties.bold,
         italic         |-> properties.italic,
         underline      |-> properties.underline,
         fontStrikeout  |-> properties.font_strikeout,
         fontScript     |-> properties.font_script,
         numFormat      |-> OrText(properties.num_format, "General"),
         numFormatIndex |-> properties.num_format_index,
         align          |-> OrNull(properties.align),
         valign         |-> OrNull(properties.valign),
         rotation       |-> properties.rotation,
         textWrap       |-> properties.text_wrap,
         shrink         |-> properties.shrink,
         indent         |-> properties.indent,
         border         |-> border,
         borderColor    |-> borderColor,
         left           |-> side(properties.left),
         leftColor      |-> sideColor(properties.left_color),
         right          |-> side(properties.right),
         rightColor     |-> sideColor(properties.right_color),
         top            |-> side(properties.top),
         topColor       |-> sideColor(properties.top_color),
         bottom         |-> side(properties.bottom),
         bottomColor    |-> sideColor(properties.bottom_color),
         diagonalType   |-> properties.diagonal_type,
         diagonalBorder |-> properties.diagonal_border,
         diagonalColor  |-> OrNull(properties.diagonal_color),
         pattern        |-> properties.pattern,
         bgColor        |-> OrNull(properties.bg_color),
         fgColor        |-> OrNull(properties.fg_color),
         locked         |-> IF properties.locked = "undefined" THEN TRUE
                            ELSE properties.locked = "true",
         hidden         |-> properties.hidden,
         xfIndex        |-> -1]

\* Format.getKey: the JSON text of these 28 fields, in this order, is the
\* record of the fields (every setter clears the cached key, so the key is
\* always the key of the current fields)
getKey(format) ==
    [fn |-> format.fontName, fs |-> format.fontSize, fc |-> format.fontColor,
     b |-> format.bold, i |-> format.italic, u |-> format.underline,
     st |-> format.fontStrikeout, sc |-> format.fontScript,
     nf |-> format.numFormat,
     al |-> format.align, va |-> format.valign, r |-> format.rotation,
     tw |-> format.textWrap, sh |-> format.shrink, in |-> format.indent,
     l |-> format.left, lc |-> format.leftColor,
     ri |-> format.right, rc |-> format.rightColor,
     t |-> format.top, tc |-> format.topColor,
     bo |-> format.bottom, bc |-> format.bottomColor,
     p |-> format.pattern, bg |-> format.bgColor, fg |-> format.fgColor,
     lo |-> format.locked, hi |-> format.hidden]

\* NUM_FORMATS: the built-in number format codes
NUM_FORMATS ==
    [f \in {"General", "0", "0.00", "#,##0", "#,##0.00", "0%", "0.00%",
            "0.00E+00", "# ?/?", "# ??/??", "mm-dd-yy", "d-mmm-yy", "d-mmm",
            "mmm-yy", "h:mm AM/PM", "h:mm:ss AM/PM", "h:mm", "h:mm:ss",
            "m/d/yy h:mm", "#,##0 ;(#,##0)", "#,##0 ;[Red](#,##0)",
            "#,##0.00;(#,##0.00)", "#,##0.00;[Red](#,##0.00)", "mm:ss",
            "[h]:mm:ss", "mmss.0", "##0.0E+0", "@"} |->
        CASE f = "General" -> 0 [] f = "0" -> 1 [] f = "0.00" -> 2
          [] f = "#,##0" -> 3 [] f = "#,##0.00" -> 4 [] f = "0%" -> 9
          [] f = "0.00%" -> 10 [] f = "0.00E+00" -> 11 [] f = "# ?/?" -> 12
          [] f = "# ??/??" -> 13 [] f = "mm-dd-yy" -> 14
          [] f = "d-mmm-yy" -> 15 [] f = "d-mmm" -> 16 [] f = "mmm-yy" -> 17
          [] f = "h:mm AM/PM" -> 18 [] f = "h:mm:ss AM/PM" -> 19
          [] f = "h:mm" -> 20 [] f = "h:mm:ss" -> 21
          [] f = "m/d/yy h:mm" -> 22 [] f = "#,##0 ;(#,##0)" -> 37
          [] f = "#,##0 ;[Red](#,##0)" -> 38
          [] f = "#,##0.00;(#,##0.00)" -> 39
          [] f = "#,##0.00;[Red](#,##0.00)" -> 40 [] f = "mm:ss" -> 45
          [] f = "[h]:mm:ss" -> 46 [] f = "mmss.0" -> 47
          [] f = "##0.0E+0" -> 48 [] f = "@" -> 49]

(***************************************************************************)
(* JavaScript values handed to the writer                                  *)
(***************************************************************************)
Undefined == [t |-> "undefined", n |-> 0, x |-> "", s |-> <<>>]
NullValue == [t |-> "null", n |-> 0, x |-> "", s |-> <<>>]
Num(n) == [t |-> "number", n |-> n, x |-> "", s |-> <<>>]
Dbl(x) == [t |-> "number", n |-> 0, x |-> x, s |-> <<>>]
Str(s) == [t |-> "string", n |-> 0, x |-> "", s |-> s]
Bool(b) == [t |-> "boolean", n |-> IF b THEN 1 ELSE 0, x |-> "", s |-> <<>>]

\* the largest finite magnitude the writer stores for an infinity; a double
\* is named by the text JavaScript prints for it
MAX_DOUBLE_TEXT == "9.99999999999999e+307"
MIN_DOUBLE_TEXT == "-9.99999999999999e+307"

\* `${value}` and String(value)
ToText(value) ==
    CASE value.t = "string"    -> value.s
      [] value.t = "number"    -> IF value.x # "" THEN <<value.x>>
                                  ELSE <<ToString(value.n)>>
      [] value.t = "boolean"   -> IF value.n = 1 THEN <<"true">> ELSE <<"false">>
      [] value.t = "null"      -> <<"null">>
      [] value.t = "undefined" -> <<"undefined">>

\* Number(value), for the values the model writes
ToNumber(value) ==
    CASE value.t = "number"    -> value
      [] value.t = "boolean"   -> Num(value.n)
      [] value.t = "null"      -> Num(0)
      [] value.t = "undefined" -> Dbl("NaN")
      [] value.t = "string"    -> IF value.s = <<>> THEN Num(0) ELSE Dbl("NaN")

\* Boolean(value)
ToBoolean(value) ==
    CASE value.t = "number"    -> Bool(~(value.x = "NaN" \/ (value.x = "" /\ value.n = 0)))
      [] value.t = "boolean"   -> value
      [] value.t = "null"      -> Bool(FALSE)
      [] value.t = "undefined" -> Bool(FALSE)
      [] value.t = "string"    -> Bool(value.s # <<>>)

startsWithEq(value) == value.t = "string" /\ value.s # <<>> /\ value.s[1] = "="

(***************************************************************************)
(* Cells.  A slot of a row holds null (NullCell) or a cellData object;     *)
(* format is the xfIndex of the registered Format object the cell refers   *)
(* to, NoFormat when the caller gave none (undefined or null).             *)
(***************************************************************************)
NoFormat == -1
NullCell == [value |-> NullValue, type |-> "null", isFormula |-> FALSE,
             format |-> NoFormat]
CellData(value, type, isFormula, format) ==
    [value |-> value, type |-> type, isFormula |-> isFormula, format |-> format]

\* a cell that leaves the shared string table as it is
keepStrings(strings, map, cell) ==
    [cellData |-> cell, sharedStrings |-> strings, sharedStringsMap |-> map]

\* a string appended to the table without looking it up first
internStringNoLookup(strings, map, text, format) ==
    [cellData |-> CellData(Num(Len(strings)), "s", FALSE, format),
     sharedStrings |-> Append(strings, text),
     sharedStringsMap |-> MapPut(map, text, Len(strings))]

\* the shared string branch of _processCell: look up, append when new
internString(strings, map, text, format) ==
    IF text \in DOMAIN map
    THEN keepStrings(strings, map, CellData(Num(map[text]), "s", FALSE, format))
    ELSE [cellData |-> CellData(Num(Len(strings)), "s", FALSE, format),
          sharedStrings |-> Append(strings, text),
          sharedStringsMap |-> MapPut(map, text, Len(strings))]

\* a number stored as it is, infinities and NaN included
numberCellUnmapped(value, format) == CellData(value, "n", FALSE, format)

\* the number branch of _processCell
numberCell(value, format) ==
    IF value.x = "Infinity" THEN CellData(Dbl(MAX_DOUBLE_TEXT), "n", FALSE, format)
    ELSE IF value.x = "-Infinity"
    THEN CellData(Dbl(MIN_DOUBLE_TEXT), "n", FALSE, format)
    ELSE IF value.x = "NaN" THEN CellData(Str(<<>>), "n", FALSE, format)
    ELSE CellData(value, "n", FALSE, format)

\* _processCell without its formula branch: every string is interned
processCellNoFormula(strings, map, value, format) ==
    CASE value.t \in {"null", "undefined"} ->
           keepStrings(strings, map, CellData(Str(<<>>), "n", FALSE, format))
      [] value.t = "string" ->
           IF value.s = <<>>
           THEN keepStrings(strings, map, CellData(Str(<<>>), "n", FALSE, format))
           ELSE internString(strings, map, value.s, format)
      [] value.t = "boolean" ->
           keepStrings(strings, map, CellData(Num(value.n), "b", FALSE, format))
      [] value.t = "number" ->
           keepStrings(strings, map, numberCell(value, format))

\* _processCell without its test for the empty string, as in the older copy
processCellInterningEmpty(strings, map, value, format) ==
    CASE value.t \in {"null", "undefined"} ->
           keepStrings(strings, map, CellData(Str(<<>>), "n", FALSE, format))
      [] value.t = "string" ->
           IF startsWithEq(value)
           THEN keepStrings(strings, map,
                            CellData(Str(Tail(value.s)), "str", TRUE, format))
           ELSE internString(strings, map, value.s, format)
      [] value.t = "boolean" ->
           keepStrings(strings, map, CellData(Num(value.n), "b", FALSE, format))
      [] value.t = "number" ->
           keepStrings(strings, map, numberCell(value, format))

\* XlsxWriter._processCell: the cell, and the shared string table it leaves
processCell(strings, map, value, format) ==
    CASE value.t \in {"null", "undefined"} ->
           keepStrings(strings, map, CellData(Str(<<>>), "n", FALSE, format))
      [] value.t = "string" ->
           IF startsWithEq(value)
           THEN keepStrings(strings, map,
                            CellData(Str(Tail(value.s)), "str", TRUE, format))
           ELSE IF value.s = <<>>
           THEN keepStrings(strings, map, CellData(Str(<<>>), "n", FALSE, format))
           ELSE internString(strings, map, value.s, format)
      [] value.t = "boolean" ->
           keepStrings(strings, map, CellData(Num(value.n), "b", FALSE, format))
      [] value.t = "number" ->
           keepStrings(strings, map, numberCell(value, format))

(***************************************************************************)
(* The workbook: the state of one XlsxWriter (the current xlsxwrite.js).   *)
(*   sheets            the sheet list; a sheet is [name, data, startRow,   *)
(*                     startCol, chart], data a sequence of rows of cells  *)
(*   sheetMap          sheet name -> index in sheets                       *)
(*   sharedStrings     the shared string table                             *)
(*   sharedStringsMap  string -> index in sharedStrings                    *)
(*   formats           the registered Format objects, by xfIndex           *)
(*   formatMap         format key -> xfIndex                               *)
(*   customNumFormats  custom number format string -> id                   *)
(*   nextNumFormatId   the next custom number format id                    *)
(*   columnInfo, rowInfo, mergeCells   per sheet index                     *)
(* XL_COLUMN_CACHE is the module-level cache of xlColumn.                  *)
(* legacySheets and legacySharedStrings are the state of the XlsxWriter of *)
(* the older copy of xlsxwrite.js kept in the repository.                  *)
(* Observation of the calls:                                               *)
(*   last     the latest call: its name, whether it threw, and what it     *)
(*            was given and returned; for save and saveAs the names of     *)
(*            the files it added to zip in order (added), whether the      *)
(*            archive was generated, the error it raised, and the names    *)
(*            of the files zip held before the call (before)               *)
(*   written  the values handed to _processCell so far, in order           *)
(*            (legacyWritten: the cells the older writeData processed)     *)
(*   styleLog the addFormat calls so far: issued, the property sets and    *)
(*            the handle each was answered with; held, the handles the     *)
(*            program was returned; registeredAs, the fields               *)
(*            of each registry slot when it was registered; customOrder,   *)
(*            the non-built-in number format strings in the order they     *)
(*            were first given to addFormat                                *)
(*   codec    the column under test and the latest results of xlColumn     *)
(*            and xlCell2Ind                                               *)
(*   nops     the number of calls made                                     *)
(* The archive:                                                            *)
(*   zip      the JSZip object of the writer: file name -> content         *)
(*   charts   this.charts, filled by _addWorksheets during save            *)
(*   legacyZip, legacyCharts   the same of the older copy's writer         *)
(*   disk     the paths fs.writeFileSync was called with, resolved         *)
(*   env      "node" or "browser" (typeof window)                          *)
(*   suspended  the save calls that await zip.generateAsync: for each the  *)
(*            files it added and the numbers of sheets and charts it saw   *)
(* The program's chart:                                                    *)
(*   chartObj the chart object newChart returned last (NoChart: none yet)  *)
(*   chartObjSheets  the sheets (1-based) whose chart field is that very   *)
(*            object, so that a change of the object shows in them         *)
(* The helper functions outside the writer:                                *)
(*   colorCall  the value handed to getHexColor, the colour it stands for    *)
(*            and what the call returned                                   *)
(* The tree worker (tree-worker.js):                                       *)
(*   cancelWorker  self._cancelWorker                                      *)
(*   h5wasm   the HDF5 library as the worker sees it: "ready", "pending"   *)
(*            (loaded, its ready promise unresolved) or "unavailable"      *)
(*   waiting  the computeIntersect requests suspended in waitForH5Wasm,    *)
(*            in the order they arrived                                    *)
(*   posted   the messages the worker posted, in order                     *)
(*   received the number of messages the worker was sent                   *)
(*   requested  the ids of the computeIntersect messages among them        *)
(*   cancelSeen  the ids of the requests that were suspended when a cancel *)
(*            message was processed                                        *)
(***************************************************************************)
VARIABLES sheets, sheetMap, sharedStrings, sharedStringsMap,
          formats, formatMap, customNumFormats, nextNumFormatId,
          columnInfo, rowInfo, mergeCells, XL_COLUMN_CACHE,
          legacySheets, legacySharedStrings, legacyWritten,
          last, written, styleLog, codec, nops,
          zip, charts, legacyZip, legacyCharts, disk, env, suspended,
          chartObj, chartObjSheets, colorCall,
          cancelWorker, h5wasm, waiting, posted, received, requested,
          cancelSeen

sheetVars == <<sheets, sheetMap, columnInfo, rowInfo, mergeCells>>
stringVars == <<sharedStrings, sharedStringsMap>>
formatVars == <<formats, formatMap, customNumFormats, nextNumFormatId,
                styleLog>>
legacyVars == <<legacySheets, legacySharedStrings, legacyWritten>>
fileVars == <<zip, charts, legacyZip, legacyCharts, disk, env, suspended>>
chartVars == <<chartObj, chartObjSheets>>
workerVars == <<cancelWorker, h5wasm, waiting, posted, received, requested,
                cancelSeen>>
sideVars == <<colorCall, workerVars>>
archiveVars == <<fileVars, chartVars, sideVars>>
vars == <<sheets, sheetMap, sharedStrings, sharedStringsMap,
          formats, formatMap, customNumFormats, nextNumFormatId,
          columnInfo, rowInfo, mergeCells, XL_COLUMN_CACHE,
          legacySheets, legacySharedStrings, legacyWritten,
          last, written, styleLog, codec, nops,
          zip, charts, legacyZip, legacyCharts, disk, env, suspended,
          chartObj, chartObjSheets, colorCall,
          cancelWorker, h5wasm, waiting, posted, received, requested,
          cancelSeen>>

\* a chart object, as far as the sheet model reads and writes it
NoChart == [type |-> "none", x |-> 0, y |-> 0]

\* row arguments: an integer n ("int"), the fraction n + 1/2 ("frac"), or
\* NaN / undefined ("nan")
IntRow(n) == [k |-> "int", n |-> n]

\* the part of the state a sheet operation reads and writes, threaded
\* through the calls one operation makes; threw is set by a TypeError
Workbook ==
    [sheets |-> sheets, sheetMap |-> sheetMap,
     sharedStrings |-> sharedStrings, sharedStringsMap |-> sharedStringsMap,
     columnInfo |-> columnInfo, rowInfo |-> rowInfo, mergeCells |-> mergeCells,
     written |-> written, threw |-> FALSE, sheetIndex |-> -1]

Min(a, b) == IF a <= b THEN a ELSE b

\* XlsxWriter._getOrCreateSheet: w.sheetIndex is the index it returns
getOrCreateSheet(w, sheetName) ==
    IF sheetName \in DOMAIN w.sheetMap
    THEN [w EXCEPT !.sheetIndex = w.sheetMap[sheetName]]
    ELSE [w EXCEPT
            !.sheetIndex = Len(w.sheets),
            !.sheets = Append(w.sheets,
                [name |-> sheetName, data |-> <<>>, startRow |-> 1,
                 startCol |-> 1, chart |-> NoChart]),
            !.sheetMap = MapPut(w.sheetMap, sheetName, Len(w.sheets))]

\* `while (data.length <= row) data.push([])`
growRows(data, row) ==
    IF row.k \in {"int", "frac"} /\ Len(data) <= row.n
    THEN data \o [i \in 1..(row.n + 1 - Len(data)) |-> <<>>]
    ELSE data

\* `while (data[row].length <= col) data[row].push(null)`
growCols(cells, col) ==
    IF Len(cells) <= col
    THEN cells \o [i \in 1..(col + 1 - Len(cells)) |-> NullCell]
    ELSE cells

\* data[row] is an array (anything else makes `.length` a TypeError)
isRowIndex(data, row) == row.k = "int" /\ row.n >= 0 /\ row.n < Len(data)

\* XlsxWriter.write with a numeric row and column.  A cell assigned at a
\* negative column becomes a property of the row array that no loop of
\* the writer visits: it is not kept.
write(w0, row, col, value, format, sheet) ==
    LET w == getOrCreateSheet(w0, sheet)
        i == w.sheetIndex + 1
        grown == growRows(w.sheets[i].data, row)
    IN  IF ~isRowIndex(grown, row)
        THEN [w EXCEPT !.sheets[i].data = grown, !.threw = TRUE]
        ELSE LET r == row.n + 1
                 cells == growCols(grown[r], col)
                 pc == processCell(w.sharedStrings, w.sharedStringsMap,
                                   value, format)
                 stored == IF col >= 0
                           THEN [cells EXCEPT ![col + 1] = pc.cellData]
                           ELSE cells
                 sr == w.sheets[i].startRow
                 sc == w.sheets[i].startCol
             IN  [w EXCEPT
                    !.sheets[i].data = [grown EXCEPT ![r] = stored],
                    !.sheets[i].startRow = Min(IF sr # 0 THEN sr ELSE 1, row.n + 1),
                    !.sheets[i].startCol = Min(IF sc # 0 THEN sc ELSE 1, col + 1),
                    !.sharedStrings = pc.sharedStrings,
                    !.sharedStringsMap = pc.sharedStringsMap,
                    !.written = Append(w.written, value)]

\* XlsxWriter.write with a cell reference in the row argument:
\* write(ref, value) when the second argument is neither a string nor an
\* object, write(ref, sheet, value, format) when it is a string
writeA1(w, ref, value, format, sheet) ==
    LET cellInfo == xlCell2Ind(ref)
        \* a third argument of type object that is no Format (null) takes
        \* the place of the format
        fmt == IF value.t = "null" THEN NoFormat ELSE format
    IN  write(w, IntRow(cellInfo.row - 1), cellInfo.column - 1, value, fmt, sheet)

writeString(w, row, col, string, format, sheet) ==
    write(w, row, col, Str(ToText(string)), format, sheet)

writeNumber(w, row, col, number, format, sheet) ==
    write(w, row, col, ToNumber(number), format, sheet)

\* formula.startsWith is a TypeError unless formula is a string
writeFormula(w, row, col, formula, format, sheet) ==
    IF formula.t # "string" THEN [w EXCEPT !.threw = TRUE]
    ELSE write(w, row, col,
               IF startsWithEq(formula) THEN formula
               ELSE Str(<<"=">> \o formula.s),
               format, sheet)

writeBlank(w, row, col, format, sheet) ==
    write(w, row, col, Str(<<>>), format, sheet)

writeBoolean(w, row, col, value, format, sheet) ==
    write(w, row, col, ToBoolean(value), format, sheet)

\* displayText || url, then `=HYPERLINK("${url}","${text}")`
writeUrl(w, row, col, url, format, displayText, sheet) ==
    LET text == IF ToBoolean(displayText).n = 1 THEN displayText ELSE url
    IN  writeFormula(w, row, col,
            Str(<<"=", "HYPERLINK(\"">> \o ToText(url) \o <<"\",\"">>
                \o ToText(text) \o <<"\")">>),
            format, sheet)

\* XlsxWriter.writeRow / writeColumn with a numeric row: the loop over data
\* from element i on; a TypeError of one write ends the call
RECURSIVE writeRowFrom(_, _, _, _, _, _, _)
writeRowFrom(w, row, col, data, format, sheet, i) ==
    IF i > Len(data) \/ w.threw THEN w
    ELSE writeRowFrom(write(w, row, col + (i - 1), data[i], format, sheet),
                      row, col, data, format, sheet, i + 1)

writeRow(w, row, col, data, format, sheet) ==
    writeRowFrom(w, row, col, data, format, sheet, 1)

RECURSIVE writeColumnFrom(_, _, _, _, _, _, _)
writeColumnFrom(w, row, col, data, format, sheet, i) ==
    IF i > Len(data) \/ w.threw THEN w
    ELSE writeColumnFrom(
            write(w, [row EXCEPT !.n = row.n + (i - 1)], col, data[i],
                  format, sheet),
            row, col, data, format, sheet, i + 1)

writeColumn(w, row, col, data, format, sheet) ==
    writeColumnFrom(w, row, col, data, format, sheet, 1)

\* a column argument of setColumn: a number n ("num"), column letters s
\* ("str") or undefined ("undef"); width -1 is an undefined width
NumCol(n) == [k |-> "num", n |-> n, s |-> <<>>]
StrCol(s) == [k |-> "str", n |-> 0, s |-> s]
UndefCol == [k |-> "undef", n |-> 0, s |-> <<>>]
WidthUndefined == -1

\* XlsxWriter.setColumn; undefined + 1 is NaN, and no column lies between
\* NaN and anything
setColumn(w0, firstCol, lastCol0, width0, format, hidden, sheet) ==
    LET single == lastCol0.k = "num" /\ width0 = WidthUndefined
        width == IF single THEN lastCol0.n ELSE width0
        lastCol == IF single THEN firstCol ELSE lastCol0
        colOf(c) == IF c.k = "str" THEN xlCell2Ind(c.s \o <<49>>).column
                    ELSE c.n + 1
        startCol == colOf(firstCol)
        endCol == IF lastCol.k = "undef" THEN startCol ELSE colOf(lastCol)
        cols == IF firstCol.k = "undef" THEN {} ELSE startCol..endCol
        w == getOrCreateSheet(w0, sheet)
        i == w.sheetIndex
        old == IF i \in DOMAIN w.columnInfo THEN w.columnInfo[i] ELSE EmptyMap
        info == [width |-> width, format |-> format, hidden |-> hidden]
    IN  [w EXCEPT !.columnInfo = MapPut(w.columnInfo, i,
            [c \in DOMAIN old \cup cols |-> IF c \in cols THEN info ELSE old[c]])]

\* XlsxWriter.setRow
setRow(w0, row, height, format, hidden, sheet) ==
    LET w == getOrCreateSheet(w0, sheet)
        i == w.sheetIndex
        old == IF i \in DOMAIN w.rowInfo THEN w.rowInfo[i] ELSE EmptyMap
    IN  [w EXCEPT !.rowInfo = MapPut(w.rowInfo, i,
            MapPut(old, row + 1,
                   [height |-> height, format |-> format, hidden |-> hidden]))]

\* XlsxWriter.mergeRange with numbers; data Undefined writes nothing
mergeRange(w0, firstRow, firstCol, lastRow, lastCol, data, format, sheet) ==
    LET w == getOrCreateSheet(w0, sheet)
        i == w.sheetIndex
        old == IF i \in DOMAIN w.mergeCells THEN w.mergeCells[i] ELSE <<>>
        merged == [w EXCEPT !.mergeCells = MapPut(w.mergeCells, i,
                     Append(old, [startRow |-> firstRow + 1,
                                  startCol |-> firstCol + 1,
                                  endRow |-> lastRow + 1,
                                  endCol |-> lastCol + 1]))]
    IN  IF data.t = "undefined" THEN merged
        ELSE write(merged, IntRow(firstRow), firstCol, data, format, sheet)

\* XlsxWriter.mergeRange('A1:B2', data, sheet, format): start and end are
\* the texts before and after the colon
mergeRangeA1(w, start, end, data, format, sheet) ==
    LET s == xlCell2Ind(start)
        e == xlCell2Ind(end)
    IN  mergeRange(w, s.row - 1, s.column - 1, e.row - 1, e.column - 1,
                   data, format, sheet)

\* XlsxWriter.insertChart; chart NoChart is a missing chart argument, and
\* setting .x of undefined is a TypeError
insertChart(w0, row, col, chart, xOffset, yOffset, sheet) ==
    LET w == getOrCreateSheet(w0, sheet)
        i == w.sheetIndex + 1
    IN  IF chart = NoChart THEN [w EXCEPT !.threw = TRUE]
        ELSE [w EXCEPT !.sheets[i].chart =
                [chart EXCEPT !.x = xOffset + col * 64,
                              !.y = yOffset + row * 20]]

\* arguments of writeData: data and options.header are arrays or missing
Given(rows) == [given |-> TRUE, rows |-> rows]
Missing == [given |-> FALSE, rows |-> <<>>]
A1 == <<65, 49>>

\* the first sheet with that name (findIndex), -1 when there is none
findIndex(list, sheetName) ==
    IF \E i \in 1..Len(list) : list[i].name = sheetName
    THEN (CHOOSE i \in 1..Len(list) :
            /\ list[i].name = sheetName
            /\ \A j \in 1..(i - 1) : list[j].name # sheetName) - 1
    ELSE -1

\* the loops of writeData over fullData, from row r and cell c (0-based)
RECURSIVE writeDataFrom(_, _, _, _, _, _, _)
writeDataFrom(w, i, fullData, startRow, startCol, r, c) ==
    IF w.threw \/ r >= Len(fullData) THEN w
    ELSE LET rowIdx == IntRow(startRow - 1 + r)
             grown == growRows(w.sheets[i].data, rowIdx)
             wg == [w EXCEPT !.sheets[i].data = grown]
         IN  IF c >= Len(fullData[r + 1])
             THEN writeDataFrom(wg, i, fullData, startRow, startCol, r + 1, 0)
             ELSE IF ~isRowIndex(grown, rowIdx)
             THEN [wg EXCEPT !.threw = TRUE]
             ELSE LET colIdx == startCol - 1 + c
                      cells == growCols(grown[rowIdx.n + 1], colIdx)
                      value == fullData[r + 1][c + 1]
                      pc == processCell(w.sharedStrings, w.sharedStringsMap,
                                        value, NoFormat)
                  IN  writeDataFrom(
                        [wg EXCEPT
                           !.sheets[i].data[rowIdx.n + 1] =
                               [cells EXCEPT ![colIdx + 1] = pc.cellData],
                           !.sharedStrings = pc.sharedStrings,
                           !.sharedStringsMap = pc.sharedStringsMap,
                           !.written = Append(w.written, value)],
                        i, fullData, startRow, startCol, r, c + 1)

\* XlsxWriter.writeData(data, sheet, { xlPos, header, chart }); xlPos <<>>
\* and chart NoChart are options left out
writeData(w, data, sheet, xlPos, header, chart) ==
    LET start == xlCell2Ind(IF xlPos = <<>> THEN A1 ELSE xlPos)
        fullData == IF header.given THEN <<header.rows>> \o data.rows
                    ELSE data.rows
        existing == findIndex(w.sheets, sheet)
        ws == IF existing >= 0 THEN w
              ELSE [w EXCEPT !.sheets = Append(w.sheets,
                      [name |-> sheet, data |-> <<>>, startRow |-> start.row,
                       startCol |-> start.column, chart |-> chart])]
        i == IF existing >= 0 THEN existing + 1 ELSE Len(ws.sheets)
    IN  IF header.given /\ ~data.given
        THEN [w EXCEPT !.threw = TRUE]       \* [header, ...undefined]
        ELSE IF ~data.given
        THEN [ws EXCEPT !.threw = TRUE, !.sheetIndex = i - 1]  \* undefined.length
        ELSE LET wd == writeDataFrom(ws, i, fullData, start.row,
                                     start.column, 0, 0)
                 sr == wd.sheets[i].startRow
                 sc == wd.sheets[i].startCol
             IN  IF wd.threw THEN [wd EXCEPT !.sheetIndex = i - 1]
                 ELSE [wd EXCEPT
                         !.sheetIndex = i - 1,
                         !.sheets[i].startRow =
                             Min(IF sr # 0 THEN sr ELSE start.row, start.row),
                         !.sheets[i].startCol =
                             Min(IF sc # 0 THEN sc ELSE start.column, start.column),
                         !.sheets[i].chart =
                             IF chart # NoChart THEN chart ELSE wd.sheets[i].chart]

(***************************************************************************)
(* _generateSheetDataXML.  The XML text is the sequence of its <row>       *)
(* elements, a row the record of its attributes (0 and FALSE for the ones  *)
(* left out) with the sequence of its <c> elements; a <c> element is       *)
(* [r, t, s, kind, text]: the reference, the t attribute ("" when there is *)
(* none), the s attribute (NoFormat when there is none), and whether it    *)
(* holds <f>text</f> ("f"), <v>text</v> ("v") or nothing ("blank").        *)
(***************************************************************************)
RECURSIVE Digits(_)
Digits(n) == IF n < 10 THEN <<48 + n>> ELSE Digits(n \div 10) \o <<48 + (n % 10)>>

isEmptyValue(value) == value = Str(<<>>) \/ value.t \in {"null", "undefined"}

\* the <c> elements of one row, from cell c (1-based) on
RECURSIVE cellElements(_, _, _, _)
cellElements(cache, row, rowNum, c) ==
    IF c > Len(row) THEN <<>>
    ELSE LET cell == row[c]
             rest == cellElements(cache, row, rowNum, c + 1)
             cellRef == xlColumnResult(cache, c) \o Digits(rowNum)
             el(t, kind, text) == [r |-> cellRef, t |-> t, s |-> cell.format,
                                   kind |-> kind, text |-> text]
         IN  IF cell = NullCell THEN rest
             ELSE IF cell.isFormula
             THEN <<el("", "f", ToText(cell.value))>> \o rest
             ELSE IF isEmptyValue(cell.value)
             THEN IF cell.format # NoFormat THEN <<el("", "blank", <<>>)>> \o rest
                  ELSE rest
             ELSE IF cell.type = "n"
             THEN <<el("", "v", ToText(cell.value))>> \o rest
             ELSE <<el(cell.type, "v", ToText(cell.value))>> \o rest

\* the <row> elements from row r (1-based) on
RECURSIVE rowElements(_, _, _, _)
rowElements(cache, data, rowInfoObj, r) ==
    IF r > Len(data) THEN <<>>
    ELSE LET row == data[r]
             rest == rowElements(cache, data, rowInfoObj, r + 1)
             hasContent == \E c \in 1..Len(row) :
                              row[c] # NullCell /\ ~isEmptyValue(row[c].value)
             hasInfo == r \in DOMAIN rowInfoObj
             info == rowInfoObj[r]
         IN  IF Len(row) = 0 \/ (~hasContent /\ ~hasInfo) THEN rest
             ELSE <<[r |-> r, spans |-> Len(row),
                     ht |-> IF hasInfo THEN info.height ELSE 0,
                     hidden |-> hasInfo /\ info.hidden,
                     s |-> IF hasInfo /\ info.format # NoFormat
                              /\ info.format # 0
                           THEN info.format ELSE NoFormat,
                     cells |-> cellElements(cache, row, r, 1)]>> \o rest

generateSheetDataXMLFromSecondRow(cache, info, sheet, sheetIndex) ==
    rowElements(cache, sheet.data,
                IF sheetIndex \in DOMAIN info THEN info[sheetIndex]
                ELSE EmptyMap, 2)

generateSheetDataXML(cache, info, sheet, sheetIndex) ==
    rowElements(cache, sheet.data,
                IF sheetIndex \in DOMAIN info THEN info[sheetIndex]
                ELSE EmptyMap, 1)

\* the cache the xlColumn calls of _generateSheetDataXML leave
generateSheetDataCache(cache, info, sheet, sheetIndex) ==
    LET rows == generateSheetDataXML(cache, info, sheet, sheetIndex)
        visited == {c \in 1..XL_CACHE_LIMIT :
                      \E i \in 1..Len(rows) :
                          /\ c <= Len(sheet.data[rows[i].r])
                          /\ sheet.data[rows[i].r][c] # NullCell}
    IN  [k \in DOMAIN cache \cup visited |->
            xlColumnResult(cache, k)]

(***************************************************************************)
(* The older copy of xlsxwrite.js: writeData is the only write operation,  *)
(* it always adds a sheet and interns with indexOf.                        *)
(***************************************************************************)
indexOf(list, x) ==
    IF \E i \in 1..Len(list) : list[i] = x
    THEN (CHOOSE i \in 1..Len(list) :
            list[i] = x /\ \A j \in 1..(i - 1) : list[j] # x) - 1
    ELSE -1

\* the cell typing inlined in the older writeData
legacyProcessCell(strings, cell) ==
    LET keep(c) == [cellData |-> c, sharedStrings |-> strings]
    IN  CASE cell.t \in {"null", "undefined"} ->
               keep(CellData(Str(<<>>), "n", FALSE, NoFormat))
          [] cell.t = "string" ->
               IF startsWithEq(cell)
               THEN keep(CellData(Str(Tail(cell.s)), "str", TRUE, NoFormat))
               ELSE IF indexOf(strings, cell.s) # -1
               THEN keep(CellData(Num(indexOf(strings, cell.s)), "s", FALSE, NoFormat))
               ELSE [cellData |-> CellData(Num(Len(strings)), "s", FALSE, NoFormat),
                     sharedStrings |-> Append(strings, cell.s)]
          [] cell.t = "boolean" ->
               keep(CellData(Num(cell.n), "b", FALSE, NoFormat))
          [] cell.t = "number" ->
               IF cell.x = "Infinity"
               THEN keep(CellData(Dbl(MAX_DOUBLE_TEXT), "n", FALSE, NoFormat))
               ELSE IF cell.x = "-Infinity"
               THEN keep(CellData(Dbl(MIN_DOUBLE_TEXT), "n", FALSE, NoFormat))
               ELSE IF cell.x = "NaN"
               THEN keep(CellData(Str(<<>>), "n", FALSE, NoFormat))
               ELSE keep(CellData(cell, "n", FALSE, NoFormat))

\* the rows of fullData processed from row r and cell c (1-based) on:
\* [data: the processed rows, sharedStrings]
RECURSIVE legacyProcess(_, _, _, _, _)
legacyProcess(strings, fullData, r, c, done) ==
    IF r > Len(fullData) THEN [data |-> done, sharedStrings |-> strings]
    ELSE IF c > Len(fullData[r])
    THEN legacyProcess(strings, fullData, r + 1, 1,
                       IF Len(done) < r THEN Append(done, <<>>) ELSE done)
    ELSE LET pc == legacyProcessCell(strings, fullData[r][c])
             rows == IF Len(done) < r THEN Append(done, <<>>) ELSE done
         IN  legacyProcess(pc.sharedStrings, fullData, r, c + 1,
                 [rows EXCEPT ![r] = Append(rows[r], pc.cellData)])

RECURSIVE Flatten(_)
Flatten(rows) == IF rows = <<>> THEN <<>> ELSE Head(rows) \o Flatten(Tail(rows))

(***************************************************************************)
(* The style registry.  NUM_FORMATS is a plain object, so                  *)
(* NUM_FORMATS[name] is also defined for the names every object inherits   *)
(* from Object.prototype; the value is then a function or an object, not   *)
(* a number (InheritedMember).  A Format handle is the xfIndex of the      *)
(* registered object: addFormat returns the object of the registry itself, *)
(* and a setter called on it changes that object.                          *)
(***************************************************************************)
ObjectPrototypeNames ==
    {"constructor", "toString", "toLocaleString", "valueOf", "hasOwnProperty",
     "isPrototypeOf", "propertyIsEnumerable", "__proto__", "__defineGetter__",
     "__defineSetter__", "__lookupGetter__", "__lookupSetter__"}

InheritedMember == -2
NotANumFormat == -1

\* NUM_FORMATS[name]; NotANumFormat is undefined
numFormatsGet(name) ==
    IF name \in DOMAIN NUM_FORMATS THEN NUM_FORMATS[name]
    ELSE IF name \in ObjectPrototypeNames THEN InheritedMember
    ELSE NotANumFormat

InSeq(seq, x) == \E i \in 1..Len(seq) : seq[i] = x

Registry ==
    [formats |-> formats, formatMap |-> formatMap,
     customNumFormats |-> customNumFormats,
     nextNumFormatId |-> nextNumFormatId, styleLog |-> styleLog,
     ret |-> NoFormat]

\* the registry of a writer under construction, before its first addFormat
EmptyRegistry ==
    [formats |-> <<>>, formatMap |-> EmptyMap, customNumFormats |-> EmptyMap,
     nextNumFormatId |-> CUSTOM_NUM_FMT_START_ID,
     styleLog |-> [issued |-> {}, held |-> {}, registeredAs |-> <<>>,
                   customOrder |-> <<>>],
     ret |-> NoFormat]

\* XlsxWriter.addFormat(properties); ret is the handle returned
addFormat(reg, properties) ==
    LET format == Format(properties)
        key == getKey(format)
        nf == format.numFormat
        log == [reg.styleLog EXCEPT
                  !.customOrder =
                      IF nf \notin DOMAIN NUM_FORMATS /\ ~InSeq(@, nf)
                      THEN Append(@, nf) ELSE @]
        issue(xf) == [properties |-> properties, xfIndex |-> xf]
    IN  IF key \in DOMAIN reg.formatMap
        THEN [reg EXCEPT
                !.ret = reg.formatMap[key],
                !.styleLog = [log EXCEPT
                    !.issued = @ \cup {issue(reg.formatMap[key])},
                    !.held = @ \cup {reg.formatMap[key]}]]
        ELSE LET xfIndex == Len(reg.formats)
                 builtin == numFormatsGet(nf)
                 isNew == nf # "General" /\ builtin = NotANumFormat
                          /\ nf \notin DOMAIN reg.customNumFormats
                 index == IF nf = "General" THEN format.numFormatIndex
                          ELSE IF builtin # NotANumFormat THEN builtin
                          ELSE IF isNew THEN reg.nextNumFormatId
                          ELSE reg.customNumFormats[nf]
                 stored == [format EXCEPT !.xfIndex = xfIndex,
                                          !.numFormatIndex = index]
             IN  [formats |-> Append(reg.formats, stored),
                  formatMap |-> MapPut(reg.formatMap, key, xfIndex),
                  customNumFormats |->
                      IF isNew
                      THEN MapPut(reg.customNumFormats, nf, reg.nextNumFormatId)
                      ELSE reg.customNumFormats,
                  nextNumFormatId |->
                      IF isNew THEN reg.nextNumFormatId + 1
                      ELSE reg.nextNumFormatId,
                  styleLog |-> [log EXCEPT
                      !.issued = @ \cup {issue(xfIndex)},
                      !.held = @ \cup {xfIndex},
                      !.registeredAs = Append(@, stored)],
                  ret |-> xfIndex]

\* the setters of Format that assign one field
setField(format, field, value) == [format EXCEPT ![field] = value]

set_border(format, style) ==
    [format EXCEPT !.left = style, !.right = style, !.top = style,
                   !.bottom = style]

set_border_color(format, color) ==
    [format EXCEPT !.leftColor = color, !.rightColor = color,
                   !.topColor = color, !.bottomColor = color]

set_bg_color(format, color) ==
    [format EXCEPT !.bgColor = color,
                   !.pattern = IF @ = 0 THEN 1 ELSE @]

set_fg_color(format, color) ==
    [format EXCEPT !.fgColor = color,
                   !.pattern = IF @ = 0 THEN 1 ELSE @]

(***************************************************************************)
(* Initial state: the module loaded and `new XlsxWriter()` constructed     *)
(* (the constructor registers the default format), for either copy.        *)
(***************************************************************************)
NoCall == [op |-> "none", threw |-> FALSE, sheetIndex |-> -1, sheet |-> "",
           row |-> IntRow(0), col |-> 0, value |-> Undefined,
           format |-> NoFormat, ret |-> -1, xml |-> <<>>,
           added |-> <<>>, generated |-> FALSE, error |-> "", before |-> {}]

Call(op, sheet, row, col, value, format) ==
    [op |-> op, threw |-> FALSE, sheetIndex |-> -1, sheet |-> sheet,
     row |-> row, col |-> col, value |-> value, format |-> format, ret |-> -1,
     xml |-> <<>>, added |-> <<>>, generated |-> FALSE, error |-> "",
     before |-> {}]

\* what a program that only uses the codecs holds: the column it was given
\* (subject), the letters xlColumn returned per column (out), and the last
\* reference it built from them (ref, for column n) with its parse (ind)
NoCodec == [subject |-> 0, out |-> EmptyMap, n |-> 0, ref |-> <<>>,
            ind |-> [row |-> 0, column |-> 0]]

\* new XlsxWriter(): empty collections, and the default format registered
Constructed ==
    LET reg == addFormat(EmptyRegistry, NoProperties)
    IN  /\ sheets = <<>>
        /\ sheetMap = EmptyMap
        /\ sharedStrings = <<>>
        /\ sharedStringsMap = EmptyMap
        /\ formats = reg.formats
        /\ formatMap = reg.formatMap
        /\ customNumFormats = reg.customNumFormats
        /\ nextNumFormatId = reg.nextNumFormatId
        /\ styleLog = [reg.styleLog EXCEPT !.held = {}]
        /\ columnInfo = EmptyMap
        /\ rowInfo = EmptyMap
        /\ mergeCells = EmptyMap
        /\ XL_COLUMN_CACHE = EmptyMap
        /\ legacySheets = <<>>
        /\ legacySharedStrings = <<>>
        /\ legacyWritten = <<>>
        /\ last = NoCall
        /\ written = <<>>
        /\ nops = 0
        /\ zip = EmptyMap
        /\ charts = <<>>
        /\ legacyZip = EmptyMap
        /\ legacyCharts = <<>>
        /\ disk = <<>>
        /\ suspended = <<>>
        /\ chartObj = NoChart
        /\ chartObjSheets = {}

\* no helper function has been called
NoColor == [value |-> [t |-> "undefined"], of |-> <<0, 0, 0>>,
            hex |-> <<>>, done |-> FALSE]

\* a message of the worker; id 0 is null
NullId == 0
Reply(cmd, id) ==
    [cmd |-> cmd, id |-> id, fileIndex |-> 0, totalFiles |-> 0, paths |-> {}]

\* the worker script has run: the flag is false and 'started' is posted
WorkerStarted(h5) ==
    /\ cancelWorker = FALSE
    /\ h5wasm = h5
    /\ waiting = <<>>
    /\ posted = <<Reply("started", NullId)>>
    /\ received = 0
    /\ requested = {}
    /\ cancelSeen = {}

Idle == colorCall = NoColor /\ WorkerStarted("pending")

Init == Constructed /\ Idle /\ codec = NoCodec /\ env = "node"

\* a sheet operation returned or threw, leaving the workbook w
Returned(w, call) ==
    /\ sheets' = w.sheets
    /\ sheetMap' = w.sheetMap
    /\ sharedStrings' = w.sharedStrings
    /\ sharedStringsMap' = w.sharedStringsMap
    /\ columnInfo' = w.columnInfo
    /\ rowInfo' = w.rowInfo
    /\ mergeCells' = w.mergeCells
    /\ written' = w.written
    /\ last' = [call EXCEPT !.threw = w.threw, !.sheetIndex = w.sheetIndex]
    /\ nops' = nops + 1
    /\ UNCHANGED <<formatVars, XL_COLUMN_CACHE, legacyVars, codec, fileVars,
                   sideVars>>

\* the same for a call that does not touch the program's chart object
Commit(w, call) == Returned(w, call) /\ UNCHANGED chartVars

(***************************************************************************)
(* The calls a program makes on the writer.  `in` names the arguments the  *)
(* calls are drawn from: rows, cols, values (converted: the values given   *)
(* to the converting writers), formats, sheets, refs, rowsOf, grids and    *)
(* headers (the arrays given to writeRow, writeColumn and writeData),      *)
(* charts.                                                                 *)
(***************************************************************************)
WriteCall(in) ==
    \E row \in in.rows, col \in in.cols, value \in in.values,
       format \in in.formats, sheet \in in.sheets :
        /\ nops < in.maxOps
        /\ Commit(write(Workbook, row, col, value, format, sheet),
                  Call("write", sheet, row, col, value, format))

WriteA1Call(in) ==
    \E ref \in in.refs, value \in in.values, format \in in.formats,
       sheet \in in.sheets :
        /\ nops < in.maxOps
        /\ Commit(writeA1(Workbook, ref, value, format, sheet),
                  Call("write", sheet, IntRow(xlCell2Ind(ref).row - 1),
                       xlCell2Ind(ref).column - 1, value,
                       IF value.t = "null" THEN NoFormat ELSE format))

WriteStringCall(in) ==
    \E row \in in.rows, col \in in.cols, value \in in.converted,
       format \in in.formats, sheet \in in.sheets :
        /\ nops < in.maxOps
        /\ Commit(writeString(Workbook, row, col, value, format, sheet),
                  Call("writeString", sheet, row, col, value, format))

WriteNumberCall(in) ==
    \E row \in in.rows, col \in in.cols, value \in in.converted,
       format \in in.formats, sheet \in in.sheets :
        /\ nops < in.maxOps
        /\ Commit(writeNumber(Workbook, row, col, value, format, sheet),
                  Call("writeNumber", sheet, row, col, value, format))

WriteFormulaCall(in) ==
    \E row \in in.rows, col \in in.cols, value \in in.converted,
       format \in in.formats, sheet \in in.sheets :
        /\ nops < in.maxOps
        /\ Commit(writeFormula(Workbook, row, col, value, format, sheet),
                  Call("writeFormula", sheet, row, col, value, format))

WriteBlankCall(in) ==
    \E row \in in.rows, col \in in.cols, format \in in.formats,
       sheet \in in.sheets :
        /\ nops < in.maxOps
        /\ Commit(writeBlank(Workbook, row, col, format, sheet),
                  Call("writeBlank", sheet, row, col, Undefined, format))

WriteBooleanCall(in) ==
    \E row \in in.rows, col \in in.cols, value \in in.converted,
       format \in in.formats, sheet \in in.sheets :
        /\ nops < in.maxOps
        /\ Commit(writeBoolean(Workbook, row, col, value, format, sheet),
                  Call("writeBoolean", sheet, row, col, value, format))

WriteUrlCall(in) ==
    \E row \in in.rows, col \in in.cols, url \in in.converted,
       format \in in.formats, sheet \in in.sheets :
        /\ nops < in.maxOps
        /\ Commit(writeUrl(Workbook, row, col, url, format, Undefined, sheet),
                  Call("writeUrl", sheet, row, col, url, format))

WriteRowCall(in) ==
    \E row \in in.rows, col \in in.cols, data \in in.rowsOf,
       format \in in.formats, sheet \in in.sheets :
        /\ nops < in.maxOps
        /\ Commit(writeRow(Workbook, row, col, data, format, sheet),
                  Call("writeRow", sheet, row, col, Undefined, format))

WriteColumnCall(in) ==
    \E row \in in.rows, col \in in.cols, data \in in.rowsOf,
       format \in in.formats, sheet \in in.sheets :
        /\ nops < in.maxOps
        /\ Commit(writeColumn(Workbook, row, col, data, format, sheet),
                  Call("writeColumn", sheet, row, col, Undefined, format))

SetColumnCall(in) ==
    \E firstCol \in in.colArgs, lastCol \in in.colArgs,
       width \in {WidthUndefined, 12}, sheet \in in.sheets :
        /\ nops < in.maxOps
        /\ Commit(setColumn(Workbook, firstCol, lastCol, width, NoFormat,
                            FALSE, sheet),
                  Call("setColumn", sheet, IntRow(0), 0, Undefined, NoFormat))

SetRowCall(in) ==
    \E row \in in.cols, sheet \in in.sheets :
        /\ nops < in.maxOps
        /\ Commit(setRow(Workbook, row, 30, NoFormat, FALSE, sheet),
                  Call("setRow", sheet, IntRow(row), 0, Undefined, NoFormat))

MergeRangeCall(in) ==
    \E firstRow \in in.cols, firstCol \in in.cols,
       data \in in.values \cup {Undefined}, format \in in.formats,
       sheet \in in.sheets :
        /\ nops < in.maxOps
        /\ Commit(mergeRange(Workbook, firstRow, firstCol, firstRow + 1,
                             firstCol + 1, data, format, sheet),
                  Call("mergeRange", sheet, IntRow(firstRow), firstCol, data,
                       format))

MergeRangeA1Call(in) ==
    \E start \in in.refs, end \in in.refs,
       data \in in.values \cup {Undefined}, format \in in.formats,
       sheet \in in.sheets :
        /\ nops < in.maxOps
        /\ Commit(mergeRangeA1(Workbook, start, end, data, format, sheet),
                  Call("mergeRange", sheet, IntRow(xlCell2Ind(start).row - 1),
                       xlCell2Ind(start).column - 1, data, format))

InsertChartCall(in) ==
    \E row \in in.cols, col \in in.cols, chart \in in.charts \cup {NoChart},
       sheet \in in.sheets :
        /\ nops < in.maxOps
        /\ Commit(insertChart(Workbook, row, col, chart, 0, 0, sheet),
                  Call("insertChart", sheet, IntRow(row), col, chart,
                       NoFormat))

WriteDataCall(in) ==
    \E data \in {Given(g) : g \in in.grids} \cup {Missing},
       header \in {Given(h) : h \in in.headers} \cup {Missing},
       xlPos \in in.refs \cup {<<>>}, chart \in in.charts \cup {NoChart},
       sheet \in in.sheets :
        /\ nops < in.maxOps
        /\ Commit(writeData(Workbook, data, sheet, xlPos, header, chart),
                  Call("writeData", sheet,
                       IntRow(xlCell2Ind(IF xlPos = <<>> THEN A1 ELSE xlPos).row - 1),
                       xlCell2Ind(IF xlPos = <<>> THEN A1 ELSE xlPos).column - 1,
                       chart, NoFormat))

\* writeData of the older copy
LegacyWriteDataCall(in) ==
    \E data \in in.grids, header \in {Given(h) : h \in in.headers} \cup {Missing},
       xlPos \in in.refs \cup {<<>>}, sheet \in in.sheets :
        LET start == xlCell2Ind(IF xlPos = <<>> THEN A1 ELSE xlPos)
            fullData == IF header.given THEN <<header.rows>> \o data ELSE data
            done == legacyProcess(legacySharedStrings, fullData, 1, 1, <<>>)
        IN  /\ nops < in.maxOps
            /\ legacySharedStrings' = done.sharedStrings
            /\ legacySheets' = Append(legacySheets,
                  [name |-> sheet, data |-> done.data, startRow |-> start.row,
                   startCol |-> start.column, chart |-> NoChart])
            /\ legacyWritten' = legacyWritten \o Flatten(fullData)
            /\ last' = Call("legacyWriteData", sheet, IntRow(start.row - 1),
                            start.column - 1, Undefined, NoFormat)
            /\ nops' = nops + 1
            /\ UNCHANGED <<sheetVars, stringVars, formatVars, XL_COLUMN_CACHE,
                           written, codec, archiveVars>>

(***************************************************************************)
(* Spec: the sheet operations of the workbook, called in any order with    *)
(* well-formed and malformed arguments.                                    *)
(***************************************************************************)
B2 == <<66, 50>>
A0 == <<65, 48>>
Malformed == <<63>>
ScatterChart == [type |-> "scatter", x |-> 0, y |-> 0]

SheetIn ==
    [maxOps  |-> MaxSheetOps,
     rows    |-> {IntRow(-1), IntRow(0), IntRow(1), [k |-> "frac", n |-> 0],
                  [k |-> "nan", n |-> 0]},
     cols    |-> {-1, 0, 1},
     values  |-> {Num(1), Str(<<"a">>)},
     formats |-> {NoFormat},
     sheets  |-> {"Sheet1", "Data"},
     refs    |-> {A1, B2, A0, Malformed},
     colArgs |-> {NumCol(0), NumCol(-1), StrCol(<<66>>), UndefCol},
     charts  |-> {ScatterChart},
     rowsOf  |-> {<<Num(1), Str(<<"a">>)>>},
     grids   |-> {<<<<Num(1)>>>>, <<<<Num(1), Str(<<"a">>)>>, <<Num(2), Str(<<"b">>)>>>>},
     headers |-> {<<Str(<<"h">>), Str(<<"a">>)>>}]

Next ==
    \/ WriteCall(SheetIn)
    \/ WriteA1Call(SheetIn)
    \/ WriteDataCall(SheetIn)
    \/ SetColumnCall(SheetIn)
    \/ SetRowCall(SheetIn)
    \/ MergeRangeCall(SheetIn)
    \/ MergeRangeA1Call(SheetIn)
    \/ InsertChartCall(SheetIn)

Spec == Init /\ [][Next]_vars

(***************************************************************************)
(* Claims about the sheet operations (checked under Spec)                  *)
(***************************************************************************)
SheetOps == {"write", "writeData", "setColumn", "setRow", "mergeRange",
             "insertChart"}

\* C1: after any sequence of write, writeData, setColumn, setRow,
\* mergeRange and insertChart calls no two entries of the sheet list have
\* the same name, and the sheet a call acted on is the one sheet that has
\* the name the call addressed.
C1_SheetNamesUnique ==
    /\ \A i, j \in 1..Len(sheets) :
          i # j => sheets[i].name # sheets[j].name
    /\ (last.op \in SheetOps /\ last.sheetIndex >= 0) =>
          /\ sheets[last.sheetIndex + 1].name = last.sheet
          /\ \A j \in 1..Len(sheets) :
                sheets[j].name = last.sheet => j = last.sheetIndex + 1

\* C9: write, writeData, setColumn, setRow, mergeRange and insertChart
\* return normally on every input, malformed ones included.
C9_NeverThrows == last.op \in SheetOps => ~last.threw

(***************************************************************************)
(* SpecCodec: a program that converts between column numbers and cell      *)
(* references.  It is given any column of the sheet (1..MaxColumn), calls  *)
(* xlColumn on it and on the columns around the cache limit, and parses    *)
(* the references it builds with xlCell2Ind.                               *)
(***************************************************************************)
\* Z, the last one-letter column, and AAA, the first column not cached
ProbeColumns == {26, XL_CACHE_LIMIT + 1}

InitCodec ==
    /\ Constructed
    /\ Idle
    /\ env = "node"
    /\ codec \in {[NoCodec EXCEPT !.subject = c] : c \in 1..MaxColumn}

\* xlColumn(column): the letters are returned and, up to ZZ, cached
XlColumnCall ==
    \E column \in {codec.subject} \cup ProbeColumns :
        /\ codec' = [codec EXCEPT
                       !.out = MapPut(@, column,
                                      xlColumnResult(XL_COLUMN_CACHE, column))]
        /\ XL_COLUMN_CACHE' = xlColumnCache(XL_COLUMN_CACHE, column)
        /\ last' = [NoCall EXCEPT !.op = "xlColumn", !.col = column,
                       !.ret = IF column \in DOMAIN XL_COLUMN_CACHE
                               THEN 1 ELSE 0]
        /\ UNCHANGED <<sheetVars, stringVars, formatVars, legacyVars,
                       written, nops, archiveVars>>

\* xlCell2Ind(xlColumn(n) + '1')
XlCell2IndCall ==
    \E column \in DOMAIN codec.out :
        LET xlCell == codec.out[column] \o <<49>>
        IN  /\ codec' = [codec EXCEPT !.n = column, !.ref = xlCell,
                                      !.ind = xlCell2Ind(xlCell)]
            /\ last' = [NoCall EXCEPT !.op = "xlCell2Ind", !.col = column]
            /\ UNCHANGED <<sheetVars, stringVars, formatVars, legacyVars,
                           written, nops, XL_COLUMN_CACHE, archiveVars>>

NextCodec == XlColumnCall \/ XlCell2IndCall

SpecCodec == InitCodec /\ [][NextCodec]_vars

\* C10: for every column n of 1..MaxColumn, xlCell2Ind(xlColumn(n) + '1')
\* is column n, row 1, and xlColumn gives different letters to different
\* columns, whether the letters were computed or served from the cache.
C10_RoundTrip ==
    /\ codec.n # 0 => codec.ind = [row |-> 1, column |-> codec.n]
    /\ \A a, b \in DOMAIN codec.out :
          codec.out[a] = codec.out[b] => a = b
    /\ \A c \in DOMAIN XL_COLUMN_CACHE :
          c \in DOMAIN codec.out /\ XL_COLUMN_CACHE[c] = codec.out[c]

\* the last column of the sheet, XFD, went through the round trip after a
\* cached column had been served from the cache
C10_Witness ==
    /\ codec.subject = MaxColumn
    /\ codec.n = MaxColumn
    /\ codec.ref = <<88, 70, 68, 49>>
    /\ codec.ind.column = MaxColumn
    /\ last.op = "xlCell2Ind"
    /\ 26 \in DOMAIN XL_COLUMN_CACHE
    /\ XL_CACHE_LIMIT + 1 \in DOMAIN codec.out

(***************************************************************************)
(* The calls a program makes on the style registry and on the Format       *)
(* objects it was handed.  `in` names the property sets, the registered    *)
(* fields with the values given to their setters, the border styles and    *)
(* the colours.                                                            *)
(***************************************************************************)
StyleCall(op, handle) == [NoCall EXCEPT !.op = op, !.ret = handle]

AddFormatCall(in) ==
    \E properties \in in.properties :
        LET reg == addFormat(Registry, properties)
        IN  /\ nops < in.maxOps
            /\ formats' = reg.formats
            /\ formatMap' = reg.formatMap
            /\ customNumFormats' = reg.customNumFormats
            /\ nextNumFormatId' = reg.nextNumFormatId
            /\ styleLog' = reg.styleLog
            /\ last' = StyleCall("addFormat", reg.ret)
            /\ nops' = nops + 1
            /\ UNCHANGED <<sheetVars, stringVars, XL_COLUMN_CACHE, legacyVars,
                           written, codec, archiveVars>>

\* a setter called on the Format object of handle h: the object is the one
\* the registry holds, and no key is recomputed in formatMap
Mutate(h, format, op) ==
    /\ formats' = [formats EXCEPT ![h + 1] = format]
    /\ last' = StyleCall(op, h)
    /\ nops' = nops + 1
    /\ UNCHANGED <<sheetVars, stringVars, formatMap, customNumFormats,
                   nextNumFormatId, styleLog, XL_COLUMN_CACHE, legacyVars,
                   written, codec, archiveVars>>

SetFieldCall(in) ==
    \E h \in styleLog.held, fv \in in.fields :
        /\ nops < in.maxOps
        /\ Mutate(h, setField(formats[h + 1], fv[1], fv[2]), "set_field")

SetBorderCall(in) ==
    \E h \in styleLog.held, style \in in.styles :
        /\ nops < in.maxOps
        /\ Mutate(h, set_border(formats[h + 1], style), "set_border")

SetBorderColorCall(in) ==
    \E h \in styleLog.held, color \in in.colors :
        /\ nops < in.maxOps
        /\ Mutate(h, set_border_color(formats[h + 1], color),
                  "set_border_color")

SetBgColorCall(in) ==
    \E h \in styleLog.held, color \in in.colors :
        /\ nops < in.maxOps
        /\ Mutate(h, set_bg_color(formats[h + 1], color), "set_bg_color")

SetFgColorCall(in) ==
    \E h \in styleLog.held, color \in in.colors :
        /\ nops < in.maxOps
        /\ Mutate(h, set_fg_color(formats[h + 1], color), "set_fg_color")

(***************************************************************************)
(* SpecStyles: a program that registers formats and calls setters on the   *)
(* Format objects addFormat returned.                                      *)
(***************************************************************************)
With(field, value) == [NoProperties EXCEPT ![field] = value]

StyleIn ==
    [maxOps     |-> MaxStyleOps,
     properties |-> {NoProperties, With("bold", TRUE),
                     With("diagonal_type", 1), With("num_format", "0.00"),
                     With("num_format", "yyyy-mm-dd"),
                     With("num_format", "0.000"),
                     With("num_format", "constructor"),
                     With("border", 1),
                     [NoProperties EXCEPT !.left = 1, !.right = 1, !.top = 1,
                                          !.bottom = 1],
                     [NoProperties EXCEPT !.num_format = "yyyy-mm-dd",
                                          !.bold = TRUE]},
     fields     |-> {<<"bold", TRUE>>, <<"numFormat", "0.000">>},
     styles     |-> {1},
     colors     |-> {"red"}]

NextStyles ==
    \/ AddFormatCall(StyleIn)
    \/ SetFieldCall(StyleIn)
    \/ SetBorderCall(StyleIn)
    \/ SetBorderColorCall(StyleIn)
    \/ SetBgColorCall(StyleIn)
    \/ SetFgColorCall(StyleIn)

SpecStyles == Init /\ [][NextStyles]_vars

(***************************************************************************)
(* Claims about the style registry (checked under SpecStyles)              *)
(***************************************************************************)
\* the fields that describe a format: those of a Format object, without
\* the border shorthand the constructor expands into the four sides and
\* without the indices the workbook assigns
DescribedFields ==
    DOMAIN Format(NoProperties)
        \ {"border", "borderColor", "xfIndex", "numFormatIndex"}

Described(format) == [f \in DescribedFields |-> format[f]]

\* C4: addFormat answers two property sets that describe identical formats
\* with the same handle (same xfIndex) without growing the format table,
\* and two property sets that differ in a single format field with handles
\* of different xfIndex.
C4_AddFormatIdempotent ==
    /\ \A a, b \in styleLog.issued :
          LET fa == Described(Format(a.properties))
              fb == Described(Format(b.properties))
              differing == {f \in DescribedFields : fa[f] # fb[f]}
          IN  /\ differing = {} => a.xfIndex = b.xfIndex
              /\ Cardinality(differing) = 1 => a.xfIndex # b.xfIndex
    /\ Len(formats) = Cardinality({a.xfIndex : a \in styleLog.issued})

\* C5: after any addFormat and setter calls every registry slot holds the
\* field values it was registered with, formatMap maps the key of each
\* stored format to its slot, and no two slots hold identical field sets.
C5_RegisteredImmutable ==
    /\ Len(formats) = Len(styleLog.registeredAs)
    /\ \A i \in 1..Len(formats) :
          /\ formats[i] = styleLog.registeredAs[i]
          /\ getKey(formats[i]) \in DOMAIN formatMap
          /\ formatMap[getKey(formats[i])] = i - 1
    /\ \A i, j \in 1..Len(formats) :
          Described(formats[i]) = Described(formats[j]) => i = j

\* C6: the non-built-in number format strings given to addFormat hold the
\* ids 164, 165, ... in the order they were first given, one id per string
\* and one string per id, and no built-in string holds such an id.
C6_CustomNumFormatIds ==
    LET order == styleLog.customOrder
    IN  /\ DOMAIN customNumFormats = {order[i] : i \in 1..Len(order)}
        /\ \A i \in 1..Len(order) :
              order[i] \in DOMAIN customNumFormats =>
                  customNumFormats[order[i]] = CUSTOM_NUM_FMT_START_ID + i - 1
        /\ nextNumFormatId = CUSTOM_NUM_FMT_START_ID + Len(order)
        /\ \A f \in DOMAIN NUM_FORMATS : f \notin DOMAIN customNumFormats

(***************************************************************************)
(* SpecCells: a program that fills one sheet through every write           *)
(* operation, with values of every type.  The older copy's writeData runs  *)
(* beside it on its own writer.                                            *)
(***************************************************************************)
\* xlsx._generateSheetDataXML(xlsx.sheets[i], i), as save calls it
GenerateSheetDataXMLCall ==
    \E i \in 0..(Len(sheets) - 1) :
        /\ last' = [NoCall EXCEPT
                      !.op = "_generateSheetDataXML", !.sheetIndex = i,
                      !.sheet = sheets[i + 1].name,
                      !.xml = generateSheetDataXML(XL_COLUMN_CACHE, rowInfo,
                                                   sheets[i + 1], i)]
        /\ XL_COLUMN_CACHE' = generateSheetDataCache(XL_COLUMN_CACHE, rowInfo,
                                                     sheets[i + 1], i)
        /\ UNCHANGED <<sheetVars, stringVars, formatVars, legacyVars, written,
                       codec, nops, archiveVars>>

CellValues ==
    {NullValue, Undefined, Str(<<>>), Str(<<"=", "A1">>), Str(<<"a">>),
     Str(<<"b">>), Bool(TRUE), Bool(FALSE), Num(7), Dbl("Infinity"),
     Dbl("-Infinity"), Dbl("NaN")}

CellIn ==
    [maxOps  |-> MaxCellOps,
     rows    |-> {IntRow(0)},
     cols    |-> {0},
     values  |-> CellValues,
     converted |-> CellValues,
     formats |-> {NoFormat},
     sheets  |-> {"Sheet1"},
     refs    |-> {A1, B2},
     charts  |-> {},
     rowsOf  |-> {<<Str(<<"a">>), Str(<<"b">>), Str(<<"a">>)>>,
                  <<Str(<<>>), Str(<<"=", "A1">>), Dbl("NaN"), NullValue,
                    Str(<<"b">>)>>},
     grids   |-> {<<<<Num(1), Str(<<"a">>)>>, <<Dbl("Infinity"), Str(<<"b">>)>>>>,
                  <<<<Str(<<>>), Str(<<"a">>), Str(<<"=", "A1">>)>>>>},
     headers |-> {<<Str(<<"h">>), Str(<<"a">>)>>}]

NextCells ==
    \/ WriteCall(CellIn)
    \/ WriteA1Call(CellIn)
    \/ WriteStringCall(CellIn)
    \/ WriteNumberCall(CellIn)
    \/ WriteFormulaCall(CellIn)
    \/ WriteBlankCall(CellIn)
    \/ WriteBooleanCall(CellIn)
    \/ WriteUrlCall(CellIn)
    \/ WriteRowCall(CellIn)
    \/ WriteColumnCall(CellIn)
    \/ MergeRangeCall(CellIn)
    \/ WriteDataCall(CellIn)
    \/ LegacyWriteDataCall(CellIn)

SpecCells == Init /\ [][NextCells]_vars

(***************************************************************************)
(* SpecNumbers: a program that writes numbers, the infinities and NaN      *)
(* among them, and generates the sheet data.                               *)
(***************************************************************************)
NumberValues == {Num(7), Dbl("Infinity"), Dbl("-Infinity"), Dbl("NaN")}

NumberIn ==
    [maxOps  |-> MaxNumberOps,
     rows    |-> {IntRow(0)},
     cols    |-> {0},
     values  |-> NumberValues,
     converted |-> {Str(<<"a">>), Dbl("Infinity"), Dbl("NaN")},
     formats |-> {NoFormat, 0},
     sheets  |-> {"Sheet1"},
     refs    |-> {B2},
     charts  |-> {},
     rowsOf  |-> {<<Dbl("Infinity"), Dbl("NaN")>>},
     grids   |-> {<<<<Dbl("-Infinity"), Num(7)>>, <<Dbl("NaN"), Dbl("Infinity")>>>>},
     headers |-> {}]

NextNumbers ==
    \/ WriteCall(NumberIn)
    \/ WriteNumberCall(NumberIn)
    \/ WriteRowCall(NumberIn)
    \/ WriteDataCall(NumberIn)
    \/ GenerateSheetDataXMLCall

SpecNumbers == Init /\ [][NextNumbers]_vars

(***************************************************************************)
(* Claims about cells and the shared string table (checked under           *)
(* SpecCells; C8 under SpecNumbers)                                        *)
(***************************************************************************)
\* null, undefined, the empty string and NaN
IsEmptyInput(value) ==
    \/ value.t \in {"null", "undefined"}
    \/ value = Str(<<>>)
    \/ value = Dbl("NaN")

IsFormulaOrEmpty(value) == startsWithEq(value) \/ IsEmptyInput(value)

\* the texts of the strings of a log of values that are no formulas (and
\* not empty, unless withEmpty), each once, in the order they first occur
RECURSIVE FirstOccurrences(_, _, _)
FirstOccurrences(log, withEmpty, seen) ==
    IF log = <<>> THEN seen
    ELSE LET v == Head(log)
             counts == /\ v.t = "string"
                       /\ ~startsWithEq(v)
                       /\ (withEmpty \/ v.s # <<>>)
         IN  FirstOccurrences(Tail(log), withEmpty,
                 IF counts /\ ~InSeq(seen, v.s) THEN Append(seen, v.s) ELSE seen)

\* the cell a write call addressed
LastCell == sheets[last.sheetIndex + 1].data[last.row.n + 1][last.col + 1]

\* C2: the shared string table is the sequence of the distinct interned
\* strings written so far in the order of their first occurrence (index 0
\* first), the index map agrees with it, and a string cell holds the index
\* of the first occurrence of its string; so for both copies of the writer.
C2_InterningIdempotent ==
    LET first == FirstOccurrences(written, FALSE, <<>>)
    IN  /\ sharedStrings = first
        /\ DOMAIN sharedStringsMap = {first[i] : i \in 1..Len(first)}
        /\ \A i \in 1..Len(first) : sharedStringsMap[first[i]] = i - 1
        /\ legacySharedStrings = FirstOccurrences(legacyWritten, TRUE, <<>>)
        /\ (last.op = "write" /\ ~last.threw /\ last.value.t = "string"
              /\ ~IsFormulaOrEmpty(last.value)) =>
                 /\ LastCell.type = "s"
                 /\ first[LastCell.value.n + 1] = last.value.s

\* a string written before was written again, after another string, and
\* got the index of its first occurrence; the older copy interned too
C2_Witness ==
    /\ last.op = "write" /\ ~last.threw
    /\ last.value = Str(<<"a">>)
    /\ Len(written) >= 3
    /\ written[1] = Str(<<"a">>)
    /\ sharedStrings = <<<<"a">>, <<"b">>>>
    /\ LastCell.value = Num(0)

C7_CellTyping ==
    /\ ~InSeq(sharedStrings, <<>>)
    /\ (last.op = "write" /\ ~last.threw) =>
          LET v == last.value
              cell == LastCell
              empty == cell.value = Str(<<>>) /\ cell.type = "n"
                       /\ ~cell.isFormula
          IN  CASE v.t \in {"null", "undefined"} -> empty
                [] v.t = "string" /\ startsWithEq(v) ->
                     /\ cell.isFormula
                     /\ cell.value = Str(Tail(v.s))
                [] v.t = "string" /\ v.s = <<>> -> empty
                [] v.t = "string" /\ ~startsWithEq(v) /\ v.s # <<>> ->
                     /\ cell.type = "s" /\ ~cell.isFormula
                     /\ cell.value.t = "number"
                     /\ sharedStrings[cell.value.n + 1] = v.s
                [] v.t = "boolean" ->
                     /\ cell.type = "b" /\ ~cell.isFormula
                     /\ cell.value = Num(IF v = Bool(TRUE) THEN 1 ELSE 0)
                [] v.t = "number" /\ v.x = "" ->
                     /\ cell.type = "n" /\ ~cell.isFormula
                     /\ cell.value = v
                [] OTHER -> TRUE

\* the empty string was written over a cell that held a shared string:
\* the cell is empty and the table holds the one string
C7_Witness ==
    /\ last.op = "write" /\ ~last.threw
    /\ last.value = Str(<<>>)
    /\ LastCell.value = Str(<<>>) /\ LastCell.type = "n"
    /\ Len(written) = 2 /\ written[1] = Str(<<"a">>)
    /\ sharedStrings = <<<<"a">>>>

\* the <c> elements of the generated sheet data
GeneratedCells ==
    UNION {{last.xml[i].cells[j] : j \in 1..Len(last.xml[i].cells)} :
              i \in 1..Len(last.xml)}

NonFiniteTexts == {<<"Infinity">>, <<"-Infinity">>, <<"NaN">>}

\* C8: no cell of a sheet stores an infinity or NaN as its number, and no
\* value of the generated sheet data is the text Infinity, -Infinity or
\* NaN: +Infinity is stored and emitted as 9.99999999999999e+307,
\* -Infinity as its negative, and a NaN cell emits no value.
C8_NoInfinityOrNaNText ==
    /\ \A i \in 1..Len(sheets) : \A r \in 1..Len(sheets[i].data) :
          \A c \in 1..Len(sheets[i].data[r]) :
              LET cell == sheets[i].data[r][c]
              IN  cell.type = "n" => ToText(cell.value) \notin NonFiniteTexts
    /\ \A e \in GeneratedCells :
          e.kind = "v" => e.text \notin NonFiniteTexts
    /\ (last.op \in {"write", "writeNumber"} /\ ~last.threw) =>
          /\ ToNumber(last.value) = Dbl("Infinity") =>
                LastCell.value = Dbl(MAX_DOUBLE_TEXT)
          /\ ToNumber(last.value) = Dbl("-Infinity") =>
                LastCell.value = Dbl(MIN_DOUBLE_TEXT)
          /\ last.value = Dbl("NaN") => LastCell.value = Str(<<>>)

\* sheet data was generated from a row holding +Infinity and NaN: one <c>
\* element, with the largest finite magnitude as its value
C8_Witness ==
    /\ last.op = "_generateSheetDataXML"
    /\ Len(written) = 2
    /\ written[1] = Dbl("Infinity") /\ written[2] = Dbl("NaN")
    /\ Len(last.xml) = 1
    /\ Len(last.xml[1].cells) = 1
    /\ last.xml[1].cells[1].text = <<MAX_DOUBLE_TEXT>>


(***************************************************************************)
(* Charts.  A chart object is the record of the fields the generated parts *)
(* read: type ("" is a missing or empty type), the anchor x, y and the     *)
(* size, the title text, the four axes [id, visible, logBase, minimum,     *)
(* maximum] and the series [name, x, y] (name a text, x and y the arrays   *)
(* of values).  generateId is Math.floor(Math.random() * 1e9): every axis  *)
(* of a chart gets an independent draw, here from 0..MaxAxisId - 1.        *)
(***************************************************************************)
NaN == Dbl("NaN")

AxisIds == 0..(MaxAxisId - 1)

\* getDefaultAxis(overrides), id being the draw of generateId()
getDefaultAxis(id, visible, scale) ==
    [id |-> id, visible |-> visible, logBase |-> scale.logBase,
     minimum |-> scale.minimum, maximum |-> scale.maximum]

\* an axis override that leaves logBase, minimum and maximum NaN
NoScale == [logBase |-> NaN, minimum |-> NaN, maximum |-> NaN]

\* options of newChart: hasType and type (options.type, or the string
\* given in place of the options), the overrides of xAxis and yAxis, and
\* secondary for y2Axis: { visible: true }
ChartOptions(hasType, type, xScale, yScale, secondary) ==
    [hasType |-> hasType, type |-> type, xAxis |-> xScale, yAxis |-> yScale,
     secondary |-> secondary]

\* XlsxWriter.newChart -> getDefaultChart; ids are the four draws of
\* generateId in the order xAxis, yAxis, x2Axis, y2Axis.  `...options`
\* comes last, so a type key that is present wins even when it is falsy
newChart(options, ids) ==
    [type   |-> IF options.hasType THEN options.type ELSE "scatter",
     x |-> 0, y |-> 0, width |-> 480, height |-> 288,
     title  |-> <<>>,
     xAxis  |-> getDefaultAxis(ids[1], TRUE, options.xAxis),
     yAxis  |-> getDefaultAxis(ids[2], TRUE, options.yAxis),
     x2Axis |-> getDefaultAxis(ids[3], FALSE, NoScale),
     y2Axis |-> getDefaultAxis(ids[4], options.secondary, NoScale),
     series |-> <<>>]

\* XlsxWriter.addSeriesToChart(chart, { name, xValues, yValues })
addSeriesToChart(chart, options) ==
    [chart EXCEPT !.series = Append(@,
        [name |-> IF options.name # <<>> THEN options.name
                  ELSE <<"Series", ToString(Len(chart.series) + 1)>>,
         x |-> options.xValues, y |-> options.yValues])]

\* escapeSheetName: '' is answered with Sheet1, and a name with a
\* character outside [A-Za-z0-9_] or a leading digit is put in quotes
NamesToQuote == {"My Data", "2024"}
escapeSheetName(name) ==
    [name |-> IF name = "" THEN "Sheet1" ELSE name,
     quoted |-> name \in NamesToQuote]

\* _generateCellRange: Sheet!$Col$startRow:$Col$endRow
generateCellRange(cache, sheetName, col, startRow, endRow) ==
    [sheet |-> escapeSheetName(sheetName), col |-> xlColumnResult(cache, col),
     startRow |-> startRow, endRow |-> endRow]

NoRange == [sheet |-> escapeSheetName(""), col |-> <<>>, startRow |-> 0,
            endRow |-> 0]

\* an element of a <c:ser>: tag is tx, xVal, yVal, cat or val; src is
\* numRef or strRef (with the formula f), numLit or strLit (with ptCount
\* and the points pts), or v (a literal name, in pts)
SerElement(tag, src, f, ptCount, pts) ==
    [tag |-> tag, src |-> src, f |-> f, ptCount |-> ptCount, pts |-> pts]

isNaN(value) == ToNumber(value) = NaN

\* the <c:pt> elements of values from index idx (0-based) on; numeric
\* literals leave out null, undefined and NaN
RECURSIVE points(_, _, _)
points(values, idx, numeric) ==
    IF idx >= Len(values) THEN <<>>
    ELSE LET val == values[idx + 1]
             rest == points(values, idx + 1, numeric)
         IN  IF numeric /\ (val.t \in {"null", "undefined"} \/ isNaN(val))
             THEN rest
             ELSE <<[idx |-> idx, v |-> ToText(val)]>> \o rest

\* _generateNumericPointsXML
generateNumericPointsXML(tag, values) ==
    SerElement(tag, "numLit", NoRange, Len(values), points(values, 0, TRUE))

\* dataInfo?.numRows > 1
hasDataBlock(dataInfo) == dataInfo.numRows > 1

\* _generateSeriesNameXML: nothing for an empty name, a reference to the
\* header cell when the sheet has more than one row, else the literal
generateSeriesNameXML(cache, series, index, sheetName, dataInfo) ==
    IF series.name = <<>> THEN <<>>
    ELSE IF hasDataBlock(dataInfo)
    THEN <<SerElement("tx", "strRef",
              generateCellRange(cache, sheetName, dataInfo.startCol + index + 1,
                                dataInfo.startRow, dataInfo.startRow),
              0, <<>>)>>
    ELSE <<SerElement("tx", "v", NoRange, 0, <<[idx |-> 0, v |-> series.name]>>)>>

\* _generateXValXML
generateXValXML(cache, series, index, sheetName, dataInfo) ==
    IF hasDataBlock(dataInfo)
    THEN <<SerElement("xVal", "numRef",
              generateCellRange(cache, sheetName, dataInfo.startCol,
                                dataInfo.startRow + 1,
                                dataInfo.startRow + dataInfo.numRows - 1),
              0, <<>>)>>
    ELSE IF Len(series.x) > 0
    THEN <<generateNumericPointsXML("xVal", series.x)>>
    ELSE <<>>

\* _generateYValXML
generateYValXML(cache, series, index, sheetName, dataInfo) ==
    IF hasDataBlock(dataInfo)
    THEN <<SerElement("yVal", "numRef",
              generateCellRange(cache, sheetName, dataInfo.startCol + index + 1,
                                dataInfo.startRow + 1,
                                dataInfo.startRow + dataInfo.numRows - 1),
              0, <<>>)>>
    ELSE IF Len(series.y) > 0
    THEN <<generateNumericPointsXML("yVal", series.y)>>
    ELSE <<>>

\* _generateCatXML: literal categories, strings when the first one is
generateCatXML(cache, series, index, sheetName, dataInfo) ==
    IF Len(series.x) = 0 THEN <<>>
    ELSE <<SerElement("cat",
              IF series.x[1].t = "string" THEN "strLit" ELSE "numLit",
              NoRange, Len(series.x), points(series.x, 0, FALSE))>>

\* _generateValXML: literal values
generateValXML(cache, series, index, sheetName, dataInfo) ==
    IF Len(series.y) = 0 THEN <<>>
    ELSE <<generateNumericPointsXML("val", series.y)>>

\* the <c:ser> element of series index: _generateScatterSeriesXML for the
\* scatter body, _generateLineSeriesXML, _generateBarSeriesXML,
\* _generateAreaSeriesXML and _generatePieSeriesXML for the others
generateSeriesXML(cache, body, series, index, sheetName, dataInfo) ==
    [idx |-> index, order |-> index,
     elements |->
        generateSeriesNameXML(cache, series, index, sheetName, dataInfo) \o
        (IF body = "scatterChart"
         THEN generateXValXML(cache, series, index, sheetName, dataInfo) \o
              generateYValXML(cache, series, index, sheetName, dataInfo)
         ELSE generateCatXML(cache, series, index, sheetName, dataInfo) \o
              generateValXML(cache, series, index, sheetName, dataInfo))]

chartBodyLineDefault(chartType) ==
    CASE chartType = "scatter"  -> "scatterChart"
      [] chartType \in {"column", "bar"} -> "barChart"
      [] chartType = "area"     -> "areaChart"
      [] chartType = "pie"      -> "pieChart"
      [] chartType = "doughnut" -> "doughnutChart"
      [] OTHER                  -> "lineChart"

\* the element _generateChartTypeXML chooses for a chart type
chartBody(chartType) ==
    CASE chartType = "scatter"  -> "scatterChart"
      [] chartType = "line"     -> "lineChart"
      [] chartType \in {"column", "bar"} -> "barChart"
      [] chartType = "area"     -> "areaChart"
      [] chartType = "pie"      -> "pieChart"
      [] chartType = "doughnut" -> "doughnutChart"
      [] OTHER                  -> "scatterChart"

\* _generateChartTypeXML: the body with its series and the axis ids it
\* names (the pie and doughnut bodies name none)
generateChartTypeXML(cache, chart, chartType, sheetName, dataInfo) ==
    LET body == chartBody(chartType)
    IN  [kind |-> body,
         barDir |-> IF body # "barChart" THEN ""
                    ELSE IF chartType = "bar" THEN "bar" ELSE "col",
         ser |-> [i \in 1..Len(chart.series) |->
                    generateSeriesXML(cache, body, chart.series[i], i - 1,
                                      sheetName, dataInfo)],
         axId |-> IF body \in {"pieChart", "doughnutChart"} THEN <<>>
                  ELSE <<chart.xAxis.id, chart.yAxis.id>>]

\* an attribute that is left out
Absent == Undefined

generateAxisXMLValueOnly(axis, position, crossAxisId, chartType) ==
    [kind |-> "valAx", axId |-> axis.id,
     logBase |-> IF axis.logBase = NaN THEN Absent ELSE axis.logBase,
     max |-> IF isNaN(axis.maximum) THEN Absent ELSE axis.maximum,
     min |-> IF isNaN(axis.minimum) THEN Absent ELSE axis.minimum,
     axPos |-> position, crossAx |-> crossAxisId]

\* _generateAxisXML
generateAxisXML(axis, position, crossAxisId, chartType) ==
    LET isLogScale == \/ axis.logBase = Dbl("Infinity")
                      \/ /\ axis.logBase.t = "number" /\ axis.logBase.x = ""
                         /\ axis.logBase.n > 1
        isXAxis == position \in {"b", "t"}
        useCategoryAxis == isXAxis /\ chartType # "scatter"
    IN  [kind |-> IF useCategoryAxis THEN "catAx" ELSE "valAx",
         axId |-> axis.id,
         logBase |-> IF isLogScale /\ ~useCategoryAxis THEN axis.logBase
                     ELSE Absent,
         max |-> IF ~useCategoryAxis /\ ~isNaN(axis.maximum)
                 THEN axis.maximum ELSE Absent,
         min |-> IF ~useCategoryAxis /\ ~isNaN(axis.minimum)
                 THEN axis.minimum ELSE Absent,
         axPos |-> position,
         crossAx |-> crossAxisId]

\* _generateChartXML: [title, plot area body, the axes in document order]
generateChartXML(cache, chart, sheetName, dataInfo) ==
    LET chartType == IF chart.type = "" THEN "scatter" ELSE chart.type
    IN  [title |-> chart.title,
         body |-> generateChartTypeXML(cache, chart, chartType, sheetName,
                                       dataInfo),
         axes |-> <<generateAxisXML(chart.xAxis, "b", chart.yAxis.id, chartType),
                    generateAxisXML(chart.yAxis, "l", chart.xAxis.id, chartType)>>
                  \o (IF chart.y2Axis.visible
                      THEN <<generateAxisXML(chart.x2Axis, "t", chart.y2Axis.id,
                                             chartType),
                             generateAxisXML(chart.y2Axis, "r", chart.x2Axis.id,
                                             chartType)>>
                      ELSE <<>>)]

\* the columns _generateChartXML asks xlColumn for
chartColumns(chart, dataInfo) ==
    IF ~hasDataBlock(dataInfo) THEN {}
    ELSE {dataInfo.startCol + i : i \in
             {i \in 1..Len(chart.series) : chart.series[i].name # <<>>}}
         \cup (IF chartBody(IF chart.type = "" THEN "scatter" ELSE chart.type)
                     = "scatterChart" /\ Len(chart.series) > 0
               THEN {dataInfo.startCol} \cup
                    {dataInfo.startCol + i : i \in 1..Len(chart.series)}
               ELSE {})

\* XL_COLUMN_CACHE after xlColumn was called for each of columns
cacheWith(cache, columns) ==
    [k \in DOMAIN cache \cup {c \in columns : c <= XL_CACHE_LIMIT} |->
        xlColumnResult(cache, k)]


(***************************************************************************)
(* save.  A file of the archive is named <<kind, n>>: rels (_rels/.rels),  *)
(* app and core (docProps), styles, theme, workbook, workbookRels,         *)
(* sharedStrings, contentTypes ([Content_Types].xml), all with n = 0, and  *)
(* sheet, sheetRels, chart, drawing, drawingRels with the number in the    *)
(* file name.  The content of a file is the record of what its XML says.   *)
(* The builder state z is [zip, added, charts, cache]: zip.file replaces   *)
(* the content of a name that exists.                                      *)
(***************************************************************************)
\* escapeXml on a text
escapeXml(text) ==
    [i \in 1..Len(text) |->
        CASE text[i] = "&" -> "&amp;" [] text[i] = "<" -> "&lt;"
          [] text[i] = ">" -> "&gt;" [] text[i] = "\"" -> "&quot;"
          [] text[i] = "'" -> "&apos;" [] OTHER -> text[i]]

(***************************************************************************)
(* styles.xml.  A font, fill or border is the key it is deduplicated by;   *)
(* an <xf> is the record of its attributes and of its <alignment> (the     *)
(* falsy value for what is left out).                                      *)
(***************************************************************************)
buildFontKey(format) ==
    [name |-> format.fontName, size |-> format.fontSize, bold |-> format.bold,
     italic |-> format.italic, underline |-> format.underline,
     fontColor |-> format.fontColor]

buildFillKey(format) == [bgColor |-> format.bgColor, pattern |-> format.pattern]

buildBorderKey(format) ==
    [left |-> format.left, right |-> format.right, top |-> format.top,
     bottom |-> format.bottom, leftColor |-> format.leftColor,
     rightColor |-> format.rightColor, topColor |-> format.topColor,
     bottomColor |-> format.bottomColor]

\* _addUniqueStyle: the key gets the next id unless the map has it
addUniqueStyle(keys, key) == IF InSeq(keys, key) THEN keys ELSE Append(keys, key)

\* the id (0-based) a map gives a key
styleId(keys, key) == (CHOOSE i \in 1..Len(keys) : keys[i] = key) - 1

\* _buildStyleCollections over the formats from i (1-based) on; the maps
\* start with the entries 'default', 'none' / 'gray125' and 'default'
RECURSIVE buildStyleCollections(_, _, _)
buildStyleCollections(coll, fmts, i) ==
    IF i > Len(fmts) THEN coll
    ELSE buildStyleCollections(
             [fonts |-> addUniqueStyle(coll.fonts, buildFontKey(fmts[i])),
              fills |-> addUniqueStyle(coll.fills, buildFillKey(fmts[i])),
              borders |-> addUniqueStyle(coll.borders, buildBorderKey(fmts[i]))],
             fmts, i + 1)

StartCollections ==
    [fonts |-> <<[key |-> "default"]>>,
     fills |-> <<[key |-> "none"], [key |-> "gray125"]>>,
     borders |-> <<[key |-> "default"]>>]

\* the first entry of cellXfs, written out in _addStyles
DefaultXf ==
    [numFmtId |-> 0, applyNumberFormat |-> FALSE, fontId |-> 0, fillId |-> 0,
     borderId |-> 0,
     alignment |-> [align |-> Null, valign |-> Null, textWrap |-> FALSE,
                    rotation |-> 0, indent |-> 0]]

\* format.numFmtId || 0: the property is read from the Format object, and
\* undefined when the object has none of that name
numFmtIdOf(format) ==
    IF "numFmtId" \in DOMAIN format THEN format.numFmtId ELSE 0

\* the <xf> the loop of _addStyles builds for one format
generateXf(coll, format) ==
    [numFmtId |-> numFmtIdOf(format),
     applyNumberFormat |-> numFmtIdOf(format) # 0,
     fontId |-> styleId(coll.fonts, buildFontKey(format)),
     fillId |-> styleId(coll.fills, buildFillKey(format)),
     borderId |-> styleId(coll.borders, buildBorderKey(format)),
     alignment |-> [align |-> format.align, valign |-> format.valign,
                    textWrap |-> format.textWrap, rotation |-> format.rotation,
                    indent |-> format.indent]]

\* _addStyles: the number formats, the collections and cellXfs, which is
\* the default entry followed by one <xf> per format
addStyles(fmts, numFmts) ==
    LET coll == buildStyleCollections(StartCollections, fmts, 1)
    IN  [numFmts |-> numFmts, fonts |-> coll.fonts, fills |-> coll.fills,
         borders |-> coll.borders,
         cellXfs |-> <<DefaultXf>> \o
                     [i \in 1..Len(fmts) |-> generateXf(coll, fmts[i])]]

\* this.zip.file(name, content)
file(z, name, content) ==
    [z EXCEPT !.zip = MapPut(@, name, content), !.added = Append(@, name)]

\* _addRels, _addDocProps (the sheet names of app.xml), and of _addXl:
\* _addStyles, _addTheme, _addWorkbook, _addWorkbookRels, _addSharedStrings
addFixedParts(z0, w) ==
    LET n == Len(w.sheets)
        names == [i \in 1..n |-> w.sheets[i].name]
        z1 == file(z0, <<"rels", 0>>, [targets |-> <<"workbook", "core", "app">>])
        z2 == file(z1, <<"app", 0>>, [sheets |-> names])
        z3 == file(z2, <<"core", 0>>, [creator |-> "User"])
        z4 == file(z3, <<"styles", 0>>,
                   addStyles(w.formats, w.customNumFormats))
        z5 == file(z4, <<"theme", 0>>, [name |-> "Office Theme"])
        z6 == file(z5, <<"workbook", 0>>,
                   [sheets |-> [i \in 1..n |->
                       [name |-> names[i], sheetId |-> i, rId |-> i]]])
        z7 == file(z6, <<"workbookRels", 0>>,
                   [worksheets |-> [i \in 1..n |-> [rId |-> i, target |-> i]],
                    theme |-> n + 1, styles |-> n + 2, sharedStrings |-> n + 3])
    IN  file(z7, <<"sharedStrings", 0>>,
             [uniqueCount |-> Len(w.sharedStrings),
              si |-> [i \in 1..Len(w.sharedStrings) |->
                         escapeXml(w.sharedStrings[i])]])

\* the dataInfo _addWorksheets records with a chart
dataInfoOf(sheet) ==
    [startRow |-> sheet.startRow, startCol |-> sheet.startCol,
     numRows |-> Len(sheet.data),
     numCols |-> IF Len(sheet.data) > 0 THEN Len(sheet.data[1]) ELSE 0]

worksheetRelsFirst(pushed) == [drawing |-> 1]

\* the relationship file _addWorksheets writes for a sheet with a chart:
\* its target is drawing${this.charts.length}
worksheetRels(pushed) == [drawing |-> Len(pushed)]

\* _addWorksheets from sheet i (0-based) on
RECURSIVE addWorksheets(_, _, _)
addWorksheets(z, w, i) ==
    IF i >= Len(w.sheets) THEN z
    ELSE LET sheet == w.sheets[i + 1]
             hasChart == sheet.chart # NoChart
             merges == IF i \in DOMAIN w.mergeCells THEN w.mergeCells[i]
                       ELSE <<>>
             c1 == generateSheetDataCache(z.cache, w.rowInfo, sheet, i)
             c2 == cacheWith(c1, {merges[k].startCol : k \in 1..Len(merges)}
                                 \cup {merges[k].endCol : k \in 1..Len(merges)})
             pushed == IF hasChart
                       THEN Append(z.charts,
                               [chart |-> sheet.chart, sheetIndex |-> i,
                                sheetName |-> sheet.name,
                                dataInfo |-> dataInfoOf(sheet)])
                       ELSE z.charts
             xml == [cols |-> IF i \in DOMAIN w.columnInfo THEN w.columnInfo[i]
                              ELSE EmptyMap,
                     sheetData |-> generateSheetDataXML(z.cache, w.rowInfo,
                                                        sheet, i),
                     mergeCells |-> [k \in 1..Len(merges) |->
                         [start |-> xlColumnResult(c1, merges[k].startCol)
                                      \o Digits(merges[k].startRow),
                          end |-> xlColumnResult(c1, merges[k].endCol)
                                      \o Digits(merges[k].endRow)]],
                     drawing |-> hasChart]
             z1 == file([z EXCEPT !.cache = c2, !.charts = pushed],
                        <<"sheet", i + 1>>, xml)
             z2 == IF hasChart
                   THEN file(z1, <<"sheetRels", i + 1>>, worksheetRels(pushed))
                   ELSE z1
         IN  addWorksheets(z2, w, i + 1)

\* `Math.floor(v / unit) || fallback`
floorOr(v, unit, fallback) ==
    IF v \div unit # 0 THEN v \div unit ELSE fallback

\* Math.ceil(v / unit)
ceilDiv(v, unit) == (v + unit - 1) \div unit

\* _addCharts from entry i (0-based) of this.charts on
RECURSIVE addCharts(_, _)
addCharts(z, i) ==
    IF i >= Len(z.charts) THEN z
    ELSE LET chartInfo == z.charts[i + 1]
             chart == chartInfo.chart
             chartId == i + 1
             startCol == floorOr(chart.x, 64, 2)
             startRow == floorOr(chart.y, 20, 1)
             z1 == file([z EXCEPT !.cache = cacheWith(z.cache,
                                chartColumns(chart, chartInfo.dataInfo))],
                        <<"chart", chartId>>,
                        generateChartXML(z.cache, chart, chartInfo.sheetName,
                                         chartInfo.dataInfo))
             z2 == file(z1, <<"drawing", chartId>>,
                        [fromCol |-> startCol, fromRow |-> startRow,
                         toCol |-> startCol + ceilDiv(chart.width, 64),
                         toRow |-> startRow + ceilDiv(chart.height, 20),
                         id |-> chartId + 1, name |-> chartId])
         IN  addCharts(file(z2, <<"drawingRels", chartId>>,
                            [chart |-> chartId]), i + 1)

\* _addContentTypes: the Overrides that depend on the workbook
addContentTypes(z, w) ==
    file(z, <<"contentTypes", 0>>,
         [sheets |-> [i \in 1..Len(w.sheets) |-> i],
          charts |-> [i \in 1..Len(z.charts) |-> i],
          drawings |-> [i \in 1..Len(z.charts) |-> i]])

saveWithoutManifest(w, zip0, cache) ==
    LET z0 == [zip |-> zip0, added |-> <<>>, charts |-> <<>>, cache |-> cache]
    IN  addCharts(addWorksheets(addFixedParts(z0, w), w, 0), 0)

saveWithoutReset(w, zip0, cache) ==
    LET z0 == [zip |-> zip0, added |-> <<>>, charts |-> charts, cache |-> cache]
        z1 == addFixedParts(z0, w)
        z2 == addWorksheets(z1, w, 0)
        z3 == addCharts(z2, 0)
    IN  addContentTypes(z3, w)

saveManifestFirst(w, zip0, cache) ==
    LET z0 == [zip |-> zip0, added |-> <<>>, charts |-> <<>>, cache |-> cache]
        z1 == addContentTypes(addFixedParts(z0, w), w)
    IN  addCharts(addWorksheets(z1, w, 0), 0)

\* XlsxWriter.save up to zip.generateAsync: this.charts is emptied, then
\* _addRels, _addDocProps, _addXl and _addContentTypes run in that order
save(w, zip0, cache) ==
    LET z0 == [zip |-> zip0, added |-> <<>>, charts |-> <<>>, cache |-> cache]
        z1 == addFixedParts(z0, w)
        z2 == addWorksheets(z1, w, 0)
        z3 == addCharts(z2, 0)
    IN  addContentTypes(z3, w)


\* _generateSheetDataXML of the older copy: the rows from row r (1-based)
\* on, numbered from the sheet's startRow and startCol; its xlColumn has
\* no cache
RECURSIVE legacyRowElements(_, _)
legacyRowElements(sheet, r) ==
    IF r > Len(sheet.data) THEN <<>>
    ELSE LET row == sheet.data[r]
             rest == legacyRowElements(sheet, r + 1)
             rowNum == sheet.startRow + r - 1
             shown == {c \in 1..Len(row) :
                         row[c].isFormula \/ ~isEmptyValue(row[c].value)}
             el(c) == [r |-> ColumnLetters(sheet.startCol + c - 1)
                               \o Digits(rowNum),
                       t |-> IF row[c].isFormula \/ row[c].type = "n" THEN ""
                             ELSE row[c].type,
                       s |-> NoFormat,
                       kind |-> IF row[c].isFormula THEN "f" ELSE "v",
                       text |-> ToText(row[c].value)]
             cells == [k \in 1..Cardinality(shown) |->
                         el(CHOOSE c \in shown :
                              Cardinality({d \in shown : d < c}) = k - 1)]
         IN  IF \A c \in 1..Len(row) : isEmptyValue(row[c].value) THEN rest
             ELSE <<[r |-> rowNum, spans |-> sheet.startCol + Len(row) - 1,
                     ht |-> 0, hidden |-> FALSE, s |-> NoFormat,
                     cells |-> cells]>>
                  \o rest

\* save of the older copy, whose sheets the model gives no chart: the same
\* files in the same order, styles.xml being a fixed text
legacySave(legacy, zip0) ==
    LET z0 == [zip |-> zip0, added |-> <<>>, charts |-> <<>>,
               cache |-> EmptyMap]
        w == [sheets |-> legacy.sheets, sharedStrings |-> legacy.sharedStrings,
              formats |-> <<>>, customNumFormats |-> EmptyMap]
        z1 == addFixedParts(z0, w)
        sheetFiles(z, i) ==
            file(z, <<"sheet", i>>,
                 [cols |-> EmptyMap,
                  sheetData |-> legacyRowElements(legacy.sheets[i], 1),
                  mergeCells |-> <<>>, drawing |-> FALSE])
        RECURSIVE sheetsFrom(_, _)
        sheetsFrom(z, i) == IF i > Len(legacy.sheets) THEN z
                            ELSE sheetsFrom(sheetFiles(z, i), i + 1)
    IN  addContentTypes(sheetsFrom(z1, 1), w)

(***************************************************************************)
(* saveAs.  A file name is [abs, segs]: whether it starts at the root, and *)
(* its segments.  path.resolve makes it absolute from the working          *)
(* directory and removes `.` and `..`.                                     *)
(***************************************************************************)
Cwd == <<"home", "work">>

\* path.resolve on the segments left, onto the resolved prefix
RECURSIVE normalize(_, _)
normalize(done, segs) ==
    IF segs = <<>> THEN done
    ELSE LET s == Head(segs)
         IN  normalize(
               IF s = "." THEN done
               ELSE IF s = ".."
               THEN (IF done = <<>> THEN done ELSE SubSeq(done, 1, Len(done) - 1))
               ELSE Append(done, s),
               Tail(segs))

resolve(filename) ==
    normalize(IF filename.abs THEN <<>> ELSE Cwd, filename.segs)

\* resolvedPath.startsWith(baseDir + path.sep) || resolvedPath === baseDir
withinBaseDir(resolvedPath) ==
    /\ Len(resolvedPath) >= Len(Cwd)
    /\ SubSeq(resolvedPath, 1, Len(Cwd)) = Cwd

\* the segment names of the model in lower case
toLowerCase(seg) ==
    CASE seg = "BOOK.XLSX" -> "book.xlsx"
      [] OTHER -> seg

\* resolvedPath.toLowerCase().endsWith('.xlsx')
endsWithXlsx(resolvedPath) ==
    /\ resolvedPath # <<>>
    /\ toLowerCase(resolvedPath[Len(resolvedPath)])
          \in {"book.xlsx", "output.xlsx", ".xlsx"}

\* this.filename of `new XlsxWriter()`
DefaultFilename == [abs |-> FALSE, segs |-> <<"output.xlsx">>]
NoFilename == [abs |-> FALSE, segs |-> <<>>]

\* what saveAs does after save() returned: nothing to the file system in
\* a browser; under Node the two checks, then fs.writeFileSync
saveAsOutcome(filename0, files) ==
    LET filename == IF filename0 = NoFilename THEN DefaultFilename
                    ELSE filename0
        resolvedPath == resolve(filename)
    IN  IF env = "browser" THEN [error |-> "", disk |-> files]
        ELSE IF ~withinBaseDir(resolvedPath)
        THEN [error |-> "output path must be within working directory",
              disk |-> files]
        ELSE IF ~endsWithXlsx(resolvedPath)
        THEN [error |-> "output file must have .xlsx extension", disk |-> files]
        ELSE [error |-> "", disk |-> Append(files, resolvedPath)]

\* saveAs of the older copy: fs.writeFileSync(filename, content) unchecked
legacySaveAsOutcome(filename0, files) ==
    LET filename == IF filename0 = NoFilename THEN DefaultFilename
                    ELSE filename0
    IN  IF env = "browser" THEN [error |-> "", disk |-> files]
        ELSE [error |-> "", disk |-> Append(files, resolve(filename))]

\* the state a save reads
Saved == [sheets |-> sheets, sharedStrings |-> sharedStrings,
          columnInfo |-> columnInfo, rowInfo |-> rowInfo,
          mergeCells |-> mergeCells, formats |-> formats,
          customNumFormats |-> customNumFormats]

\* await xlsx.save(), and xlsx.saveAs(filename) as far as given:
\* outcome is what follows the save
Saving(op, filename, outcome) ==
    LET z == save(Saved, zip, XL_COLUMN_CACHE)
    IN  /\ zip' = z.zip
        /\ charts' = z.charts
        /\ XL_COLUMN_CACHE' = z.cache
        /\ disk' = outcome.disk
        /\ last' = [NoCall EXCEPT !.op = op, !.threw = outcome.error # "",
                                  !.error = outcome.error, !.added = z.added,
                                  !.generated = TRUE, !.value = filename,
                                  !.before = DOMAIN zip]
        /\ nops' = nops + 1
        /\ UNCHANGED <<sheetVars, stringVars, formatVars, legacyVars, written,
                       codec, legacyZip, legacyCharts, env, suspended,
                       chartVars, sideVars>>

SaveCall(in) ==
    /\ nops < in.maxOps
    /\ Saving("save", NoFilename, [error |-> "", disk |-> disk])

SaveAsCall(in) ==
    \E filename \in in.filenames \cup {NoFilename} :
        /\ nops < in.maxOps
        /\ Saving("saveAs", filename, saveAsOutcome(filename, disk))

\* saveAs of the older copy
LegacySaveAsCall(in) ==
    \E filename \in in.filenames \cup {NoFilename} :
        LET z == legacySave([sheets |-> legacySheets,
                             sharedStrings |-> legacySharedStrings], legacyZip)
            outcome == legacySaveAsOutcome(filename, disk)
        IN  /\ nops < in.maxOps
            /\ legacyZip' = z.zip
            /\ legacyCharts' = z.charts
            /\ disk' = outcome.disk
            /\ last' = [NoCall EXCEPT !.op = "legacySaveAs",
                                      !.added = z.added, !.generated = TRUE,
                                      !.value = filename]
            /\ nops' = nops + 1
            /\ UNCHANGED <<sheetVars, stringVars, formatVars, legacyVars,
                           XL_COLUMN_CACHE, written, codec, zip, charts, env,
                           suspended, chartVars, sideVars>>


(***************************************************************************)
(* SpecSaveAs: a program that writes data and calls saveAs with file names *)
(* inside and outside the working directory, with and without the .xlsx    *)
(* extension, under Node and in a browser, on a writer of either copy.     *)
(***************************************************************************)
Rel(segs) == [abs |-> FALSE, segs |-> segs]
Abs(segs) == [abs |-> TRUE, segs |-> segs]

SaveAsIn ==
    [maxOps  |-> MaxSaveAsOps,
     sheets  |-> {"Sheet1"},
     refs    |-> {},
     charts  |-> {},
     grids   |-> {<<<<Str(<<"a">>), Num(1)>>>>},
     headers |-> {},
     filenames |-> {Rel(<<"book.xlsx">>), Rel(<<"out", "BOOK.XLSX">>),
                    Rel(<<"notes.txt">>), Rel(<<"..", "book.xlsx">>),
                    Rel(<<"out", "..", "..", "work2", "book.xlsx">>),
                    Abs(<<"home", "work", "book.xlsx">>),
                    Abs(<<"tmp", "book.xlsx">>), Abs(<<"home", "work">>)}]

InitSaveAs == Constructed /\ Idle /\ codec = NoCodec /\ env \in {"node", "browser"}

NextSaveAs ==
    \/ WriteDataCall(SaveAsIn)
    \/ SaveAsCall(SaveAsIn)
    \/ LegacyWriteDataCall(SaveAsIn)
    \/ LegacySaveAsCall(SaveAsIn)

SpecSaveAs == InitSaveAs /\ [][NextSaveAs]_vars

\* C12: when saveAs raises its error for a path outside the working
\* directory or without the .xlsx extension, no file has been added to the
\* archive and the archive has not been generated.
C12_NoEntriesOnRejectedPath ==
    (last.op = "saveAs" /\ last.threw) =>
        /\ last.added = <<>>
        /\ ~last.generated

\* C13: under Node every path that saveAs hands to fs.writeFileSync lies
\* within the working directory and ends in .xlsx, and a saveAs with a
\* path that fails either test raises an error, for both copies of the
\* writer.
C13_NoWriteOutsidePolicy ==
    /\ \A i \in 1..Len(disk) :
          withinBaseDir(disk[i]) /\ endsWithXlsx(disk[i])
    /\ (last.op \in {"saveAs", "legacySaveAs"} /\ env = "node"
          /\ last.value # NoFilename
          /\ ~(withinBaseDir(resolve(last.value))
                 /\ endsWithXlsx(resolve(last.value)))) => last.threw


(***************************************************************************)
(* SpecArchive: a program that fills sheets with writeData, attaches       *)
(* charts with insertChart and the chart option of writeData, and saves,   *)
(* any number of times in any order.                                       *)
(***************************************************************************)
SeriesOptions(name, xValues, yValues) ==
    [name |-> name, xValues |-> xValues, yValues |-> yValues]

LineChartA ==
    addSeriesToChart(
        newChart(ChartOptions(TRUE, "line", NoScale, NoScale, FALSE),
                 <<0, 1, 2, 3>>),
        SeriesOptions(<<>>, <<Str(<<"a">>), Str(<<"b">>)>>, <<Num(1), Num(2)>>))

ScatterChartB ==
    addSeriesToChart(
        newChart(ChartOptions(FALSE, "", NoScale, NoScale, FALSE),
                 <<4, 5, 6, 7>>),
        SeriesOptions(<<"y">>, <<Num(1), Num(2)>>, <<Num(3), Num(4)>>))

ArchiveIn ==
    [maxOps  |-> MaxSaveOps,
     cols    |-> {0},
     sheets  |-> {"Sheet1", "Data"},
     refs    |-> {},
     charts  |-> {LineChartA, ScatterChartB},
     grids   |-> {<<<<Str(<<"x">>), Str(<<"y">>)>>, <<Num(1), Num(3)>>,
                    <<Num(2), Num(4)>>>>},
     headers |-> {}]

NextArchive ==
    \/ WriteDataCall(ArchiveIn)
    \/ InsertChartCall(ArchiveIn)
    \/ SaveCall(ArchiveIn)

SpecArchive == Init /\ [][NextArchive]_vars

\* the numbers n of the files <<kind, n>> of the archive
PartNumbers(kind) == {n \in 1..(2 * MaxSaveOps + 2) : <<kind, n>> \in DOMAIN zip}

SeqRange(q) == {q[i] : i \in 1..Len(q)}

\* the position of a file name in the order the latest save added files
AddedAt(name) == CHOOSE i \in 1..Len(last.added) : last.added[i] = name

\* C14: after every completed save, the first or a later one, the
\* content-types manifest has an Override for exactly the worksheet, chart
\* and drawing files of the archive, and the save added the manifest after
\* every sheet and chart file.
C14_ManifestMatchesParts ==
    (last.op = "save" /\ last.generated) =>
        LET manifest == zip[<<"contentTypes", 0>>]
        IN  /\ SeqRange(manifest.sheets) = PartNumbers("sheet")
            /\ SeqRange(manifest.charts) = PartNumbers("chart")
            /\ SeqRange(manifest.drawings) = PartNumbers("drawing")
            /\ \A i \in 1..Len(last.added) :
                  last.added[i][1] \in {"sheet", "sheetRels", "chart",
                                        "drawing", "drawingRels"}
                     => i < AddedAt(<<"contentTypes", 0>>)

\* a second save, of an archive saved before without a chart, after a chart
\* was attached: the manifest now lists the chart
C14_Witness ==
    /\ last.op = "save" /\ last.generated
    /\ <<"contentTypes", 0>> \in last.before
    /\ <<"chart", 1>> \notin last.before
    /\ <<"chart", 1>> \in DOMAIN zip
    /\ zip[<<"contentTypes", 0>>].charts = <<1>>

\* the sheets (1-based) that have a chart, and the rank of one among them
Charted == {i \in 1..Len(sheets) : sheets[i].chart # NoChart}
RankOf(i) == Cardinality({j \in Charted : j <= i})

\* C15: after save a worksheet file has a <drawing> element and a
\* relationship file exactly when its sheet has a chart; the k-th charted
\* sheet targets drawing k, whose relationship targets chart k, which is
\* generated from that sheet's chart; there are as many chart files,
\* drawing files and drawing relationship files as charted sheets.
C15_DrawingPerChartedSheet ==
    (last.op = "save" /\ last.generated) =>
        /\ \A i \in 1..Len(sheets) :
              /\ zip[<<"sheet", i>>].drawing <=> i \in Charted
              /\ <<"sheetRels", i>> \in DOMAIN zip <=> i \in Charted
              /\ i \in Charted =>
                    LET k == RankOf(i)
                    IN  /\ zip[<<"sheetRels", i>>].drawing = k
                        /\ zip[<<"drawingRels", k>>].chart = k
                        /\ zip[<<"chart", k>>] =
                              generateChartXML(XL_COLUMN_CACHE, sheets[i].chart,
                                  sheets[i].name, dataInfoOf(sheets[i]))
        /\ PartNumbers("chart") = 1..Cardinality(Charted)
        /\ PartNumbers("drawing") = 1..Cardinality(Charted)
        /\ PartNumbers("drawingRels") = 1..Cardinality(Charted)
        /\ PartNumbers("sheetRels") = Charted

\* the second of two sheets has the only chart: its file targets drawing 1
C15_Witness ==
    /\ last.op = "save" /\ last.generated
    /\ Len(sheets) = 2
    /\ Charted = {2}
    /\ zip[<<"sheetRels", 2>>].drawing = 1
    /\ ~zip[<<"sheet", 1>>].drawing


\* two chart values are the same chart object up to the position insertChart
\* stores into it
sameChart(a, b) == [a EXCEPT !.x = 0, !.y = 0] = [b EXCEPT !.x = 0, !.y = 0]

\* C16: a sheet holds at most one chart: once a chart is attached to a
\* sheet, by insertChart or by the chart option of writeData, no sheet of
\* that name has another chart; and after save there are at most as many
\* chart files as sheets, each generated from the chart its sheet holds.
C16_AttachReplacesChart ==
    /\ (last.op \in {"insertChart", "writeData"} /\ ~last.threw
          /\ last.value # NoChart) =>
          \A i \in 1..Len(sheets) :
              (sheets[i].name = last.sheet /\ sheets[i].chart # NoChart)
                  => sameChart(sheets[i].chart, last.value)
    /\ (last.op = "save" /\ last.generated) =>
          /\ Cardinality(PartNumbers("chart")) <= Len(sheets)
          /\ \A i \in Charted :
                zip[<<"chart", RankOf(i)>>] =
                    generateChartXML(XL_COLUMN_CACHE, sheets[i].chart,
                        sheets[i].name, dataInfoOf(sheets[i]))


(***************************************************************************)
(* SpecGrid: a program that writes rectangular grids of strings, numbers   *)
(* and empty cells with writeData, each to a sheet that does not exist     *)
(* yet and at A1, and saves.                                               *)
(***************************************************************************)
GridIn ==
    [maxOps |-> MaxSaveOps,
     sheets |-> {"Sheet1", "Data"},
     grids  |-> {<<<<Str(<<"a">>), Num(1)>>, <<Str(<<"b">>), Num(2)>>>>,
                 <<<<Str(<<"b">>), Str(<<"b">>)>>, <<Str(<<>>), NullValue>>>>,
                 <<<<Num(2), Str(<<"c">>)>>, <<NullValue, Str(<<"a">>)>>>>}]

WriteGridCall(in) ==
    \E grid \in in.grids, sheet \in in.sheets :
        /\ nops < in.maxOps
        /\ \A i \in 1..Len(sheets) : sheets[i].name # sheet
        /\ Commit(writeData(Workbook, Given(grid), sheet, <<>>, Missing, NoChart),
                  Call("writeData", sheet, IntRow(0), 0, NoChart, NoFormat))

NextGrid ==
    \/ WriteGridCall(GridIn)
    \/ SaveCall(GridIn)

SpecGrid == Init /\ [][NextGrid]_vars

\* the grid the i-th sheet (1-based) was given: every grid of GridIn has the
\* same shape, and `written` lists the cells of the grids in sheet order
GridOf(i) ==
    LET shape == CHOOSE g \in GridIn.grids : TRUE
        nrows == Len(shape)
        ncols == Len(shape[1])
    IN  [r \in 1..nrows |-> [c \in 1..ncols |->
            written[(i - 1) * nrows * ncols + (r - 1) * ncols + c]]]

\* the distinct strings of a grid in the order they first occur, row by row
GridStrings(grid) == FirstOccurrences(Flatten(grid), FALSE, <<>>)

\* the <c> elements a grid row should get: one per non-empty cell, in column
\* order, a string cell with t="s" and its index in the table, a numeric
\* cell without t and with its number
ExpectedCells(grid, r, table) ==
    LET row == grid[r]
        cols == SelectSeq([c \in 1..Len(row) |-> c],
                          LAMBDA c : ~(row[c] = Str(<<>>)
                                       \/ row[c].t \in {"null", "undefined"}))
    IN  [k \in 1..Len(cols) |->
            LET v == row[cols[k]]
            IN  [r |-> ColumnLetters(cols[k]) \o Digits(r),
                 t |-> IF v.t = "string" THEN "s" ELSE "",
                 s |-> NoFormat,
                 kind |-> "v",
                 text |-> IF v.t = "string"
                          THEN ToText(Num(indexOf(table, v.s)))
                          ELSE ToText(v)]]

\* the grid rows that hold a non-empty cell, in order
RowsWithContent(grid) ==
    SelectSeq([r \in 1..Len(grid) |-> r],
              LAMBDA r : ExpectedCells(grid, r, <<>>) # <<>>)

\* C11 as stated: after save the file of every sheet has one <row> per row
\* of the grid written to it, row r holding one <c> per non-empty cell with
\* reference xlColumn(c+1) and r+1, strings typed s with their index in the
\* shared string table, numbers untyped; and the shared string file lists
\* exactly the distinct strings of that grid.
C11_GridSheetPart ==
    (last.op = "save" /\ last.generated) =>
        \A i \in 1..Len(sheets) :
            LET grid == GridOf(i)
                rows == zip[<<"sheet", i>>].sheetData
                table == FirstOccurrences(written, FALSE, <<>>)
                si == zip[<<"sharedStrings", 0>>].si
            IN  /\ Len(rows) = Len(grid)
                /\ \A r \in 1..Len(rows) :
                      /\ rows[r].r = r
                      /\ rows[r].cells = ExpectedCells(grid, r, table)
                /\ Len(si) = Len(GridStrings(grid))
                /\ SeqRange(si) = SeqRange(GridStrings(grid))

\* C11 amended: there is one <row> per grid row that holds a non-empty
\* cell, numbered by the grid row, with the cells as stated; and the shared
\* string file lists the distinct strings of all grids written to the
\* workbook, in the order they first occurred.
C11_GridSheetPartAmended ==
    (last.op = "save" /\ last.generated) =>
        LET table == FirstOccurrences(written, FALSE, <<>>)
            si == zip[<<"sharedStrings", 0>>].si
        IN  /\ \A i \in 1..Len(sheets) :
                  LET grid == GridOf(i)
                      rows == zip[<<"sheet", i>>].sheetData
                      kept == RowsWithContent(grid)
                  IN  /\ Len(rows) = Len(kept)
                      /\ \A k \in 1..Len(rows) :
                            /\ rows[k].r = kept[k]
                            /\ rows[k].cells =
                                  ExpectedCells(grid, kept[k], table)
            /\ si = table
            /\ zip[<<"sharedStrings", 0>>].uniqueCount = Len(table)

\* two grids were written and saved: the second has an empty row and a
\* string the first has too
C11_Witness ==
    /\ last.op = "save" /\ last.generated
    /\ Len(sheets) = 2
    /\ Len(zip[<<"sheet", 1>>].sheetData) = 2
    /\ Len(zip[<<"sheet", 2>>].sheetData) = 1
    /\ zip[<<"sharedStrings", 0>>].si = <<<<"a">>, <<"b">>>>


(***************************************************************************)
(* SpecCharts: a program that builds one chart with newChart and           *)
(* addSeriesToChart, attaches it with insertChart or with the chart option *)
(* of writeData (to a sheet with three rows, one row or none), and saves.  *)
(* The chart is one object: what addSeriesToChart and insertChart store    *)
(* into it shows in every sheet that holds it.                             *)
(***************************************************************************)
LogScale == [logBase |-> Num(10), minimum |-> Num(1), maximum |-> Num(100)]

KnownTypes == {"scatter", "line", "bar", "column", "area", "pie", "doughnut"}

ChartIn ==
    [maxOps  |-> MaxChartOps,
     ids     |-> {<<0, 1, 2, 3>>, <<1, 1, 0, 0>>},
     options |-> {ChartOptions(FALSE, "", NoScale, NoScale, FALSE),
                  ChartOptions(TRUE, "", NoScale, NoScale, FALSE),
                  ChartOptions(TRUE, "radar", LogScale, NoScale, FALSE),
                  ChartOptions(TRUE, "scatter", LogScale, LogScale, TRUE),
                  ChartOptions(TRUE, "line", LogScale, LogScale, TRUE)}
                 \cup {ChartOptions(TRUE, type, NoScale, NoScale, FALSE) :
                          type \in KnownTypes \ {"scatter", "line"}},
     series  |-> {SeriesOptions(<<"y">>, <<Num(1), Num(2)>>,
                                <<Num(3), Num(4)>>)},
     cols    |-> {0},
     sheets  |-> {"Sheet1"},
     refs    |-> {},
     grids   |-> {<<<<Str(<<"x">>), Str(<<"y">>)>>, <<Num(1), Num(3)>>,
                    <<Num(2), Num(4)>>>>,
                  <<<<Num(1), Num(3)>>>>}]

\* the sheets of w, those that hold the program's chart object now holding obj
withChartObj(w, held, obj) ==
    [w EXCEPT !.sheets = [j \in 1..Len(w.sheets) |->
        IF j \in held THEN [w.sheets[j] EXCEPT !.chart = obj]
        ELSE w.sheets[j]]]

NewChartCall(in) ==
    \E options \in in.options, ids \in in.ids :
        /\ nops < in.maxOps
        /\ chartObj = NoChart
        /\ chartObj' = newChart(options, ids)
        /\ chartObjSheets' = {}
        /\ last' = [NoCall EXCEPT !.op = "newChart"]
        /\ nops' = nops + 1
        /\ UNCHANGED <<sheetVars, stringVars, formatVars, legacyVars,
                       XL_COLUMN_CACHE, written, codec, fileVars, sideVars>>

\* addSeriesToChart(chart, options); without a chart, reading
\* chart.subtype is a TypeError
AddSeriesToChartCall(in) ==
    \E options \in in.series :
        LET obj == addSeriesToChart(chartObj, options)
        IN  /\ nops < in.maxOps
            /\ IF chartObj = NoChart
               THEN /\ last' = [NoCall EXCEPT !.op = "addSeriesToChart",
                                              !.threw = TRUE]
                    /\ UNCHANGED <<chartObj, sheets>>
               ELSE /\ last' = [NoCall EXCEPT !.op = "addSeriesToChart"]
                    /\ chartObj' = obj
                    /\ sheets' = withChartObj(Workbook, chartObjSheets, obj).sheets
            /\ nops' = nops + 1
            /\ UNCHANGED <<sheetMap, columnInfo, rowInfo, mergeCells, stringVars,
                           formatVars, legacyVars, XL_COLUMN_CACHE, written,
                           codec, fileVars, chartObjSheets, sideVars>>

\* insertChart(row, col, chart, {}, sheet) with the program's chart object
AttachChartCall(in) ==
    \E row \in in.cols, col \in in.cols, sheet \in in.sheets :
        LET w == insertChart(Workbook, row, col, chartObj, 0, 0, sheet)
            call == Call("insertChart", sheet, IntRow(row), col, chartObj,
                         NoFormat)
            held == chartObjSheets \cup {w.sheetIndex + 1}
            obj == w.sheets[w.sheetIndex + 1].chart
        IN  /\ nops < in.maxOps
            /\ IF w.threw
               THEN Returned(w, call) /\ UNCHANGED chartVars
               ELSE /\ Returned(withChartObj(w, held, obj), call)
                    /\ chartObj' = obj
                    /\ chartObjSheets' = held

\* writeData(data, sheet, { xlPos, chart }) with the program's chart object
WriteDataChartCall(in) ==
    \E grid \in in.grids, sheet \in in.sheets, xlPos \in in.refs \cup {<<>>} :
        LET w == writeData(Workbook, Given(grid), sheet, xlPos, Missing, chartObj)
            start == xlCell2Ind(IF xlPos = <<>> THEN A1 ELSE xlPos)
        IN  /\ nops < in.maxOps
            /\ Returned(w, Call("writeData", sheet, IntRow(start.row - 1),
                                start.column - 1, chartObj, NoFormat))
            /\ chartObjSheets' =
                  IF chartObj = NoChart \/ w.threw THEN chartObjSheets
                  ELSE chartObjSheets \cup {findIndex(w.sheets, sheet) + 1}
            /\ UNCHANGED chartObj

NextCharts ==
    \/ NewChartCall(ChartIn)
    \/ AddSeriesToChartCall(ChartIn)
    \/ AttachChartCall(ChartIn)
    \/ WriteDataChartCall(ChartIn)
    \/ SaveCall(ChartIn)

SpecCharts == Init /\ [][NextCharts]_vars

\* the chart file of charted sheet i, and the type its generator ran with
\* (chart.type || 'scatter')
ChartFile(i) == zip[<<"chart", RankOf(i)>>]
TypeOf(i) == IF sheets[i].chart.type = "" THEN "scatter" ELSE sheets[i].chart.type

\* the X/Y (category/value) elements of the series of a chart file
DataElements(xml) ==
    {el \in UNION {SeqRange(xml.body.ser[k].elements) :
                      k \in 1..Len(xml.body.ser)} :
        el.tag \in {"xVal", "yVal", "cat", "val"}}

\* C17: for every chart type, the X/Y (category/value) data of each series
\* are range references when the chart's sheet has more than one data row,
\* and literal values only when it has not.
C17_RangeReferences ==
    (last.op = "save" /\ last.generated) =>
        \A i \in Charted :
            \A el \in DataElements(ChartFile(i)) :
                el.src \in {"numRef", "strRef"}
                    <=> dataInfoOf(sheets[i]).numRows > 1

\* the axis of a chart that is emitted at a position
AxisAt(chart, position) ==
    CASE position = "b" -> chart.xAxis
      [] position = "l" -> chart.yAxis
      [] position = "t" -> chart.x2Axis
      [] position = "r" -> chart.y2Axis

\* a value axis element that carries the log base, minimum and maximum its
\* axis has
IsValueAxis(ax, axis) ==
    /\ ax.kind = "valAx"
    /\ ax.logBase = (IF axis.logBase = NaN THEN Absent ELSE axis.logBase)
    /\ ax.min = (IF axis.minimum = NaN THEN Absent ELSE axis.minimum)
    /\ ax.max = (IF axis.maximum = NaN THEN Absent ELSE axis.maximum)

\* C18: in a scatter chart every axis is a value axis, with the log base,
\* minimum and maximum of its axis; in a chart of another type the X axes
\* (bottom, top) are category axes without log base, minimum and maximum,
\* and the Y axes are value axes.
C18_AxisKindByType ==
    (last.op = "save" /\ last.generated) =>
        \A i \in Charted :
            LET axes == ChartFile(i).axes
            IN  \A a \in 1..Len(axes) :
                    LET ax == axes[a]
                        axis == AxisAt(sheets[i].chart, ax.axPos)
                    IN  IF TypeOf(i) # "scatter" /\ ax.axPos \in {"b", "t"}
                        THEN /\ ax.kind = "catAx"
                             /\ ax.logBase = Absent
                             /\ ax.min = Absent
                             /\ ax.max = Absent
                        ELSE IsValueAxis(ax, axis)

\* a line chart whose X axis was given a log base, minimum and maximum was
\* saved: its X axis is a category axis, its Y axis a logarithmic value axis
C18_Witness ==
    /\ last.op = "save" /\ last.generated
    /\ 1 \in Charted
    /\ sheets[1].chart.type = "line"
    /\ sheets[1].chart.xAxis.logBase = Num(10)
    /\ Len(ChartFile(1).axes) = 4
    /\ ChartFile(1).axes[1].kind = "catAx"
    /\ ChartFile(1).axes[2].logBase = Num(10)

\* C20: a chart whose type is missing or none of the seven known types is
\* generated without an error as a scatterChart body whose series have the
\* scatter form (xVal, yVal).
C20_UnknownTypeIsScatter ==
    (last.op = "save" /\ last.generated) =>
        /\ ~last.threw
        /\ \A i \in Charted :
              sheets[i].chart.type \notin KnownTypes =>
                  /\ ChartFile(i).body.kind = "scatterChart"
                  /\ Len(ChartFile(i).body.ser) = Len(sheets[i].chart.series)
                  /\ \A el \in DataElements(ChartFile(i)) :
                        el.tag \in {"xVal", "yVal"}
                  /\ \A k \in 1..Len(ChartFile(i).body.ser) :
                        {"xVal", "yVal"} \subseteq
                            {el.tag : el \in SeqRange(ChartFile(i).body.ser[k].elements)}

\* a chart of type 'radar' with a series was saved
C20_Witness ==
    /\ last.op = "save" /\ last.generated
    /\ 1 \in Charted
    /\ sheets[1].chart.type = "radar"
    /\ Len(sheets[1].chart.series) = 1
    /\ ChartFile(1).body.kind = "scatterChart"
    /\ DataElements(ChartFile(1)) # {}


(***************************************************************************)
(* SpecAxisIds: a program that builds one chart with newChart, attaches it *)
(* with insertChart and saves.  The four axis ids are four draws of        *)
(* generateId, Math.floor(Math.random() * 1e9): any four numbers.          *)
(***************************************************************************)
AxisIn ==
    [maxOps  |-> MaxChartOps,
     ids     |-> [1..4 -> AxisIds],
     options |-> {ChartOptions(FALSE, "", NoScale, NoScale, FALSE),
                  ChartOptions(TRUE, "scatter", NoScale, NoScale, TRUE),
                  ChartOptions(TRUE, "pie", NoScale, NoScale, FALSE)},
     cols    |-> {0},
     sheets  |-> {"Sheet1"}]

NextAxisIds ==
    \/ NewChartCall(AxisIn)
    \/ AttachChartCall(AxisIn)
    \/ SaveCall(AxisIn)

SpecAxisIds == Init /\ [][NextAxisIds]_vars

\* C19: the axis ids of a chart's XML are pairwise distinct, two when the
\* secondary pair is not visible and four when it is; the crossAx of each
\* axis is the id of the axis it is paired with; and the chart body names
\* exactly the ids of the primary X and Y axes.
C19_AxisIdsDistinct ==
    (last.op = "save" /\ last.generated) =>
        \A i \in Charted :
            LET axes == ChartFile(i).axes
                body == ChartFile(i).body
            IN  /\ Len(axes) = IF sheets[i].chart.y2Axis.visible THEN 4 ELSE 2
                /\ \A a, b \in 1..Len(axes) :
                      a # b => axes[a].axId # axes[b].axId
                /\ \A a \in 1..Len(axes) :
                      axes[a].crossAx =
                          axes[IF a % 2 = 1 THEN a + 1 ELSE a - 1].axId
                /\ SeqRange(body.axId) = {axes[1].axId, axes[2].axId}


\* C29: a chart whose body comes from the scatter generator (type scatter,
\* missing or not recognised) has value axes only, never a category axis.
C29_ScatterBodyValueAxes ==
    (last.op = "save" /\ last.generated) =>
        \A i \in Charted :
            ChartFile(i).body.kind = "scatterChart" =>
                \A a \in 1..Len(ChartFile(i).axes) :
                    ChartFile(i).axes[a].kind = "valAx"

(***************************************************************************)
(* SpecAnchor: a program that builds one chart with newChart, attaches it  *)
(* with insertChart at rows and columns 0, 1 and 2 of either sheet, and    *)
(* saves.                                                                  *)
(***************************************************************************)
AnchorIn ==
    [maxOps  |-> MaxChartOps,
     ids     |-> {<<0, 1, 2, 3>>},
     options |-> {ChartOptions(FALSE, "", NoScale, NoScale, FALSE)},
     cols    |-> {0, 1, 2},
     sheets  |-> {"Sheet1", "Data"}]

NextAnchor ==
    \/ NewChartCall(AnchorIn)
    \/ AttachChartCall(AnchorIn)
    \/ SaveCall(AnchorIn)

SpecAnchor == Init /\ [][NextAnchor]_vars

\* C22: the drawing of a chart attached by insertChart at (row, col) with
\* zero offsets, which stores x = col * 64 and y = row * 20, is anchored
\* from column col and row row, row and column 0 included, to that cell
\* plus ceil(width / 64) columns and ceil(height / 20) rows.
C22_DrawingAnchor ==
    (last.op = "save" /\ last.generated) =>
        \A i \in Charted :
            LET drawing == zip[<<"drawing", RankOf(i)>>]
                given == sheets[i].chart
                col == given.x \div 64
                row == given.y \div 20
            IN  /\ drawing.fromCol = col
                /\ drawing.fromRow = row
                /\ drawing.toCol = drawing.fromCol + ceilDiv(given.width, 64)
                /\ drawing.toRow = drawing.fromRow + ceilDiv(given.height, 20)


\* C28: a save that follows a save with no call in between leaves the set
\* of archive paths and the chart list as they were, and after every save
\* the chart list has exactly one entry per charted sheet, in sheet order.
C28_SaveIdempotent ==
    [][(last'.op = "save" /\ nops' = nops + 1) =>
          /\ Len(charts') = Cardinality(Charted')
          /\ \A i \in Charted' :
                /\ Cardinality({k \in 1..Len(charts') :
                                   charts'[k].sheetIndex = i - 1}) = 1
                /\ charts'[RankOf(i)'].sheetIndex = i - 1
                /\ charts'[RankOf(i)'].chart = sheets'[i].chart
          /\ last.op = "save" =>
                /\ DOMAIN zip' = DOMAIN zip
                /\ charts' = charts]_vars

\* a chart was attached, and the workbook was saved twice in a row
C28_Witness ==
    /\ last.op = "save" /\ last.generated
    /\ nops = 3
    /\ <<"chart", 1>> \in last.before
    /\ last.before = DOMAIN zip
    /\ Len(charts) = 1


(***************************************************************************)
(* SpecSuspend: save as the two steps its one `await` divides it into.     *)
(* SaveBeginCall runs save up to the call of zip.generateAsync and leaves  *)
(* the call suspended; GenerateAsyncResolved resumes it, and save returns  *)
(* the content.  While a save is suspended the program goes on: it writes  *)
(* data and starts further saves.                                          *)
(***************************************************************************)
SuspendIn ==
    [maxOps  |-> MaxSaveOps,
     sheets  |-> {"Sheet1", "Data"},
     refs    |-> {},
     charts  |-> {LineChartA},
     grids   |-> {<<<<Str(<<"x">>), Str(<<"y">>)>>, <<Num(1), Num(3)>>>>},
     headers |-> {}]

SaveBeginCall(in) ==
    LET z == save(Saved, zip, XL_COLUMN_CACHE)
    IN  /\ nops < in.maxOps
        /\ zip' = z.zip
        /\ charts' = z.charts
        /\ XL_COLUMN_CACHE' = z.cache
        /\ suspended' = Append(suspended,
              [added |-> z.added, sheets |-> Len(sheets),
               charts |-> Len(z.charts)])
        /\ last' = [NoCall EXCEPT !.op = "save", !.added = z.added,
                                  !.before = DOMAIN zip]
        /\ nops' = nops + 1
        /\ UNCHANGED <<sheetVars, stringVars, formatVars, legacyVars, written,
                       codec, legacyZip, legacyCharts, disk, env, chartVars,
                       sideVars>>

\* the promise of zip.generateAsync of one suspended save is resolved: the
\* save returns the content
GenerateAsyncResolved ==
    \E k \in 1..Len(suspended) :
        /\ suspended' = SubSeq(suspended, 1, k - 1)
                          \o SubSeq(suspended, k + 1, Len(suspended))
        /\ last' = [NoCall EXCEPT !.op = "generateAsync",
                                  !.added = suspended[k].added,
                                  !.ret = suspended[k].sheets,
                                  !.generated = TRUE]
        /\ UNCHANGED <<sheetVars, stringVars, formatVars, legacyVars, written,
                       codec, XL_COLUMN_CACHE, nops, zip, charts, legacyZip,
                       legacyCharts, disk, env, chartVars, sideVars>>

NextSuspend ==
    \/ WriteDataCall(SuspendIn)
    \/ SaveBeginCall(SuspendIn)
    \/ GenerateAsyncResolved

SpecSuspend == Init /\ [][NextSuspend]_vars

\* the files a save of a workbook with that many sheets and charts hands
\* to the archive
PartsOf(s) ==
    {<<kind, 0>> : kind \in {"rels", "app", "core", "styles", "theme",
                            "workbook", "workbookRels", "sharedStrings",
                            "contentTypes"}}
    \cup {<<"sheet", i>> : i \in 1..s.sheets}
    \cup {<<kind, k>> : kind \in {"chart", "drawing", "drawingRels"},
                        k \in 1..s.charts}

\* C24: save is suspended once, at zip.generateAsync: when the call starts
\* the save has handed every part to the archive (relationships, document
\* properties, styles, theme, workbook, shared strings, sheets, charts,
\* drawings, content types), and the step that resumes the save adds and
\* changes no archive entry and ends it.
C24_OneSuspensionPoint ==
    [][/\ Len(suspended') > Len(suspended) =>
             /\ suspended' = Append(suspended, suspended'[Len(suspended')])
             /\ PartsOf(suspended'[Len(suspended')])
                   \subseteq SeqRange(suspended'[Len(suspended')].added)
             /\ SeqRange(suspended'[Len(suspended')].added)
                   \subseteq DOMAIN zip'
       /\ Len(suspended') < Len(suspended) =>
             /\ zip' = zip
             /\ charts' = charts
             /\ Len(suspended') = Len(suspended) - 1
             /\ last'.generated]_vars

\* a save that was suspended while a sheet was added has resumed
C24_Witness ==
    /\ last.op = "generateAsync" /\ last.generated
    /\ suspended = <<>>
    /\ last.ret = 1
    /\ Len(sheets) = 2
    /\ <<"sheet", 2>> \notin DOMAIN zip


(***************************************************************************)
(* SpecRange: a program that builds a scatter chart with one series or     *)
(* more and writes one block, a header row and one or two body rows, with  *)
(* writeData at A1 or at B2 together with the chart, and saves.            *)
(***************************************************************************)
RangeIn ==
    [maxOps  |-> MaxChartOps,
     ids     |-> {<<0, 1, 2, 3>>},
     options |-> {ChartOptions(TRUE, "scatter", NoScale, NoScale, FALSE)},
     series  |-> {SeriesOptions(<<"y">>, <<Num(1), Num(2)>>,
                                <<Num(3), Num(4)>>)},
     sheets  |-> {"Sheet1"},
     refs    |-> {B2},
     grids   |-> {<<<<Str(<<"x">>), Str(<<"y">>)>>, <<Num(1), Num(3)>>,
                    <<Num(2), Num(4)>>>>,
                  <<<<Str(<<"x">>), Str(<<"y">>)>>, <<Num(1), Num(3)>>>>}]

\* the one writeData call of the program
WriteBlockCall(in) == sheets = <<>> /\ WriteDataChartCall(in)

NextRange ==
    \/ NewChartCall(RangeIn)
    \/ AddSeriesToChartCall(RangeIn)
    \/ WriteBlockCall(RangeIn)
    \/ SaveCall(RangeIn)

SpecRange == Init /\ [][NextRange]_vars

\* C23: for the block written at the anchor (r0, c0), a header row and n
\* body rows, the references of scatter series i are column c0 for X and
\* column c0 + i + 1 for Y, rows r0 + 1 to r0 + n, at every anchor.
C23_RangeCoversBody ==
    (last.op = "save" /\ last.generated) =>
        \A s \in Charted :
            LET r0 == sheets[s].startRow
                c0 == sheets[s].startCol
                n == Len(written) \div 2 - 1
                ser == ChartFile(s).body.ser
            IN  \A k \in 1..Len(ser) :
                    \A el \in SeqRange(ser[k].elements) :
                        el.tag \in {"xVal", "yVal"} =>
                            /\ el.src = "numRef"
                            /\ el.f.col = ColumnLetters(
                                  IF el.tag = "xVal" THEN c0 ELSE c0 + k)
                            /\ el.f.startRow = r0 + 1
                            /\ el.f.endRow = r0 + n

(***************************************************************************)
(* getHexColor.  A string is the sequence of its character codes; a colour *)
(* is its <<red, green, blue>> bytes.                                      *)
(***************************************************************************)
ToLowerCase(ch) == IF IsUpper(ch) THEN ch + 32 ELSE ch

lowerCase(s) == [i \in 1..Len(s) |-> ToLowerCase(s[i])]
upperCase(s) == [i \in 1..Len(s) |-> ToUpperCase(s[i])]

\* Number.prototype.toString(16) of a non-negative integer
RECURSIVE toString16(_)
toString16(n) ==
    LET digit == IF n % 16 < 10 THEN 48 + (n % 16) ELSE 87 + (n % 16)
    IN  IF n < 16 THEN <<digit>> ELSE Append(toString16(n \div 16), digit)

\* s.padStart(len, '0')
RECURSIVE padStart(_, _)
padStart(s, len) == IF Len(s) >= len THEN s ELSE padStart(<<48>> \o s, len)

\* s.replace('#', ''): the first '#' only
RECURSIVE removeHash(_)
removeHash(s) ==
    IF s = <<>> THEN s
    ELSE IF s[1] = 35 THEN Tail(s)
    ELSE <<s[1]>> \o removeHash(Tail(s))

\* [..].map(c => c.toString(16).padStart(2, '0')).join('').toUpperCase()
hexBytes(bytes) ==
    upperCase(Flatten([i \in 1..Len(bytes) |-> padStart(toString16(bytes[i]), 2)]))

\* the entries of NAMED_COLORS the model draws names from
NAMED_COLORS ==
    (<<98, 108, 97, 99, 107>> :> <<48, 48, 48, 48, 48, 48>>)
    @@ (<<110, 97, 118, 121>> :> <<48, 48, 48, 48, 56, 48>>)
    @@ (<<98, 108, 117, 101>> :> <<48, 48, 48, 48, 70, 70>>)
    @@ (<<116, 101, 97, 108>> :> <<48, 48, 56, 48, 56, 48>>)
    @@ (<<108, 105, 109, 101>> :> <<48, 48, 70, 70, 48, 48>>)
    @@ (<<114, 101, 100>> :> <<70, 70, 48, 48, 48, 48>>)
    @@ (<<103, 111, 108, 100>> :> <<70, 70, 68, 55, 48, 48>>)
    @@ (<<119, 104, 105, 116, 101>> :> <<70, 70, 70, 70, 70, 70>>)

ColorNull == [t |-> "null"]
ColorUndefined == [t |-> "undefined"]
ColorNaN == [t |-> "nan"]
ColorString(s) == [t |-> "string", s |-> s]
ColorArray(a) == [t |-> "array", a |-> a]
ColorNumber(n) == [t |-> "number", n |-> n]

Black == <<48, 48, 48, 48, 48, 48>>

\* the packed integer read with the high byte as red
getHexColorHighByteRed(colorValue) ==
    IF colorValue.t \in {"null", "undefined", "nan"} THEN Black
    ELSE IF colorValue.t = "string"
    THEN IF lowerCase(colorValue.s) \in DOMAIN NAMED_COLORS
         THEN NAMED_COLORS[lowerCase(colorValue.s)]
         ELSE upperCase(removeHash(colorValue.s))
    ELSE IF colorValue.t = "array" THEN hexBytes(colorValue.a)
    ELSE hexBytes(<<(colorValue.n \div 65536) % 256,
                    (colorValue.n \div 256) % 256,
                    colorValue.n % 256>>)

\* getHexColor(colorValue); the array holds integers, which Math.round
\* leaves alone, and the number is not negative, so that & 0xFF and >> 8
\* are % 256 and \div 256
getHexColor(colorValue) ==
    IF colorValue.t \in {"null", "undefined", "nan"} THEN Black
    ELSE IF colorValue.t = "string"
    THEN IF lowerCase(colorValue.s) \in DOMAIN NAMED_COLORS
         THEN NAMED_COLORS[lowerCase(colorValue.s)]
         ELSE upperCase(removeHash(colorValue.s))
    ELSE IF colorValue.t = "array" THEN hexBytes(colorValue.a)
    ELSE IF colorValue.t = "number"
    THEN hexBytes(<<colorValue.n % 256,
                    (colorValue.n \div 256) % 256,
                    (colorValue.n \div 65536) % 256>>)
    ELSE Black

(***************************************************************************)
(* The colours of the check and their representations                      *)
(***************************************************************************)
\* HTML colour names and the colours they name
ColorNames ==
    { <<(<<98, 108, 97, 99, 107>>), <<0, 0, 0>>>>,
      <<(<<110, 97, 118, 121>>), <<0, 0, 128>>>>,
      <<(<<98, 108, 117, 101>>), <<0, 0, 255>>>>,
      <<(<<116, 101, 97, 108>>), <<0, 128, 128>>>>,
      <<(<<108, 105, 109, 101>>), <<0, 255, 0>>>>,
      <<(<<114, 101, 100>>), <<255, 0, 0>>>>,
      <<(<<103, 111, 108, 100>>), <<255, 215, 0>>>>,
      <<(<<119, 104, 105, 116, 101>>), <<255, 255, 255>>>> }

Colors == {p[2] : p \in ColorNames}
             \cup {<<1, 2, 3>>, <<18, 52, 86>>, <<171, 205, 239>>}

\* every way of writing the letters of s in upper and lower case
RECURSIVE Casings(_)
Casings(s) ==
    IF s = <<>> THEN {<<>>}
    ELSE {<<ch>> \o rest : ch \in {ToUpperCase(s[1]), ToLowerCase(s[1])},
                           rest \in Casings(Tail(s))}

UpperHexDigit(d) == IF d < 10 THEN 48 + d ELSE 55 + d

\* the 6-character uppercase hex of a colour
HexOf(rgb) ==
    <<UpperHexDigit(rgb[1] \div 16), UpperHexDigit(rgb[1] % 16),
      UpperHexDigit(rgb[2] \div 16), UpperHexDigit(rgb[2] % 16),
      UpperHexDigit(rgb[3] \div 16), UpperHexDigit(rgb[3] % 16)>>

Packed(rgb) == rgb[1] + 256 * rgb[2] + 65536 * rgb[3]

Representations(rgb) ==
    {ColorString(s) : s \in UNION {Casings(p[1]) :
                                     p \in {q \in ColorNames : q[2] = rgb}}}
      \cup {ColorString(s) : s \in Casings(HexOf(rgb))}
      \cup {ColorString(<<35>> \o s) : s \in Casings(HexOf(rgb))}
      \cup {ColorArray(rgb), ColorNumber(Packed(rgb))}

InitColors ==
    /\ Constructed
    /\ WorkerStarted("pending")
    /\ codec = NoCodec
    /\ env = "node"
    /\ colorCall \in
         UNION {{[NoColor EXCEPT !.value = v, !.of = rgb] :
                    v \in Representations(rgb)} : rgb \in Colors}
           \cup {[NoColor EXCEPT !.value = v] :
                   v \in {ColorNull, ColorUndefined, ColorNaN}}

\* getHexColor(colorCall.value)
GetHexColorCall ==
    /\ ~colorCall.done
    /\ colorCall' = [colorCall EXCEPT !.hex = getHexColor(colorCall.value),
                                      !.done = TRUE]
    /\ UNCHANGED <<sheetVars, stringVars, formatVars, legacyVars,
                   XL_COLUMN_CACHE, last, written, codec, nops, fileVars,
                   chartVars, workerVars>>

NextColors == GetHexColorCall

SpecColors == InitColors /\ [][NextColors]_vars

\* C21: getHexColor answers every representation of a colour (its name in
\* any case, '#rrggbb', 'rrggbb', [r, g, b], the packed integer with red in
\* the low byte) with the colour's 6-character uppercase hex, and null,
\* undefined and NaN with '000000'.
C21_SameHexForEveryRepresentation ==
    colorCall.done =>
        /\ colorCall.hex = HexOf(colorCall.of)
        /\ colorCall.value.t \in {"null", "undefined", "nan"}
              => colorCall.hex = Black

\* a packed integer whose red and blue bytes differ has been converted
C21_Witness ==
    /\ colorCall.done
    /\ colorCall.value.t = "number"
    /\ colorCall.of[1] # colorCall.of[3]
    /\ colorCall.hex = HexOf(colorCall.of)

(***************************************************************************)
(* SpecStyled: a program that registers formats, writes cells and blank    *)
(* cells with the formats addFormat returned, and saves.                   *)
(***************************************************************************)
StyledIn ==
    [maxOps     |-> MaxStyledOps,
     properties |-> {With("bold", TRUE), With("num_format", "0.00"),
                     With("num_format", "yyyy-mm-dd")},
     rows       |-> {IntRow(0)},
     cols       |-> {0, 1},
     values     |-> {Num(5), NullValue},
     formats    |-> {NoFormat},
     sheets     |-> {"Sheet1"}]

\* the formats a call can be given: none, or a Format addFormat returned
StyledNow == [StyledIn EXCEPT !.formats = styleLog.held \cup {NoFormat}]

NextStyled ==
    \/ AddFormatCall(StyledIn)
    \/ WriteCall(StyledNow)
    \/ WriteBlankCall(StyledNow)
    \/ SaveCall(StyledIn)

SpecStyled == Init /\ [][NextStyled]_vars

\* the styles file and the collections its ids refer to
StylesFile == zip[<<"styles", 0>>]
StylesColl ==
    [fonts |-> StylesFile.fonts, fills |-> StylesFile.fills,
     borders |-> StylesFile.borders]

\* C25: after save, the s attribute of every cell written with a format
\* selects in cellXfs the <xf> generated from that same format, however
\* many formats are registered.
C25_StyleIndexSelectsXf ==
    last.op = "save" =>
        \A i \in 1..Len(sheets) :
            LET rows == zip[<<"sheet", i>>].sheetData
            IN  \A k \in 1..Len(rows) : \A j \in 1..Len(rows[k].cells) :
                    LET s == rows[k].cells[j].s
                    IN  s # NoFormat =>
                            /\ s + 1 <= Len(StylesFile.cellXfs)
                            /\ StylesFile.cellXfs[s + 1]
                                  = generateXf(StylesColl, formats[s + 1])

\* C26: after save, the <xf> of every registered format whose number format
\* is not 'General' carries the number format id the format was given at
\* registration, and applyNumberFormat.
C26_XfCarriesNumFmtId ==
    last.op = "save" =>
        \A i \in 1..Len(formats) :
            formats[i].numFormat # "General" =>
                LET xf == StylesFile.cellXfs[i + 1]
                IN  /\ xf.numFmtId = styleLog.registeredAs[i].numFormatIndex
                    /\ xf.applyNumberFormat

\* C27: after save, every blank cell that was written with a format has a
\* styled empty <c> element in its sheet, also when it is alone in its row
\* and the row has no override.
C27_StyledBlankEmitted ==
    last.op = "save" =>
        \A i \in 1..Len(sheets) :
            \A r \in 1..Len(sheets[i].data) :
                \A c \in 1..Len(sheets[i].data[r]) :
                    LET cell == sheets[i].data[r][c]
                        rows == zip[<<"sheet", i>>].sheetData
                    IN  (/\ cell # NullCell
                         /\ ~cell.isFormula
                         /\ isEmptyValue(cell.value)
                         /\ cell.format # NoFormat)
                        => \E k \in 1..Len(rows) :
                              /\ rows[k].r = r
                              /\ \E j \in 1..Len(rows[k].cells) :
                                    rows[k].cells[j]
                                      = [r |-> ColumnLetters(c) \o Digits(r),
                                         t |-> "", s |-> cell.format,
                                         kind |-> "blank", text |-> <<>>]

(***************************************************************************)
(* The tree worker.  A file of a request is [ok, paths]: whether its       *)
(* buffer is an ArrayBuffer that h5wasm opens, and the paths               *)
(* collectAllPathsSync finds in it.  The handler of a computeIntersect     *)
(* message has one suspension point, `await waitForH5Wasm()`; what follows *)
(* it runs without interruption.                                           *)
(***************************************************************************)
H5File(paths) == [ok |-> TRUE, paths |-> paths]
NoBuffer == [ok |-> FALSE, paths |-> {}]

Progress(id, fileIndex, totalFiles) ==
    [Reply("progress", id) EXCEPT !.fileIndex = fileIndex,
                                  !.totalFiles = totalFiles]

\* the set a file adds to pathSets
pathSet(fobj) == IF fobj.ok THEN fobj.paths ELSE {}

\* the intersection loop over pathSets
RECURSIVE intersect(_, _, _)
intersect(pathSets, i, intersection) ==
    IF i > Len(pathSets) THEN intersection
    ELSE intersect(pathSets, i + 1,
                   IF i = 1 THEN pathSets[1]
                   ELSE {p \in intersection : p \in pathSets[i]})

\* the handler of computeIntersect from the return of waitForH5Wasm on,
\* for the value the flag has then: the messages it posts.  The flag is
\* tested before the first file and after the last, nothing changes it in
\* between, and a 'cancelled' error is answered with { cmd: 'cancelled', id }
computeIntersectAfterWait(flag, id, files) ==
    IF flag THEN <<Reply("cancelled", id)>>
    ELSE [i \in 1..Len(files) |-> Progress(id, i, Len(files))]
           \o <<[Reply("result", id) EXCEPT
                   !.paths = intersect([i \in 1..Len(files) |->
                                           pathSet(files[i])], 1, {})]>>

WorkerFiles ==
    {<<>>, <<H5File({"/a", "/a/x", "/b"})>>,
     <<H5File({"/a", "/a/x", "/b"}), H5File({"/a", "/b"})>>,
     <<H5File({"/a"}), NoBuffer>>}

InitWorker ==
    /\ Constructed
    /\ codec = NoCodec
    /\ env = "browser"
    /\ colorCall = NoColor
    /\ \E h5 \in {"ready", "pending", "unavailable", "incomplete"} :
          WorkerStarted(h5)

WriterIdle ==
    UNCHANGED <<sheetVars, stringVars, formatVars, legacyVars, XL_COLUMN_CACHE,
                last, written, codec, nops, fileVars, chartVars, colorCall>>

\* { cmd: 'computeIntersect', id, files }: the flag is cleared; with the
\* library ready the await returns before any other message is handled,
\* without FS or File the request is answered with an error, otherwise the
\* request stays suspended in waitForH5Wasm
ComputeIntersectMessage ==
    \E files \in WorkerFiles :
        LET id == received + 1
        IN  /\ received < MaxMessages
            /\ received' = id
            /\ requested' = requested \cup {id}
            /\ cancelWorker' = FALSE
            /\ posted' =
                 IF h5wasm = "ready"
                 THEN posted \o computeIntersectAfterWait(FALSE, id, files)
                 ELSE IF h5wasm = "incomplete"
                 THEN Append(posted, Reply("error", id))
                 ELSE posted
            /\ waiting' =
                 IF h5wasm \in {"pending", "unavailable"}
                 THEN Append(waiting, [id |-> id, files |-> files])
                 ELSE waiting
            /\ UNCHANGED <<h5wasm, cancelSeen>>
            /\ WriterIdle

\* { cmd: 'cancel' }: the flag is set and the message acknowledged
CancelMessage ==
    /\ received < MaxMessages
    /\ received' = received + 1
    /\ cancelWorker' = TRUE
    /\ posted' = Append(posted, Reply("cancelled", NullId))
    /\ cancelSeen' = cancelSeen \cup {waiting[k].id : k \in 1..Len(waiting)}
    /\ UNCHANGED <<h5wasm, waiting, requested>>
    /\ WriterIdle

\* a message with any other cmd: the handler does nothing
OtherMessage ==
    /\ received < MaxMessages
    /\ received' = received + 1
    /\ UNCHANGED <<cancelWorker, h5wasm, waiting, posted, requested, cancelSeen>>
    /\ WriterIdle

\* h5wasm.ready resolves: notifyH5Ready posts 'h5ready' and the suspended
\* requests resume in the order they arrived, each with the flag as it is
\* now
ReadyResolved ==
    /\ h5wasm = "pending"
    /\ h5wasm' = "ready"
    /\ posted' = Append(posted, Reply("h5ready", NullId))
                   \o Flatten([k \in 1..Len(waiting) |->
                         computeIntersectAfterWait(cancelWorker, waiting[k].id,
                                                   waiting[k].files)])
    /\ waiting' = <<>>
    /\ UNCHANGED <<cancelWorker, received, requested, cancelSeen>>
    /\ WriterIdle

\* the 50 attempts of the oldest suspended request are used up without the
\* library: waitForH5Wasm throws and the request is answered with an error
WaitTimedOut ==
    /\ h5wasm = "unavailable"
    /\ waiting # <<>>
    /\ posted' = Append(posted, Reply("error", waiting[1].id))
    /\ waiting' = Tail(waiting)
    /\ UNCHANGED <<cancelWorker, h5wasm, received, requested, cancelSeen>>
    /\ WriterIdle

NextWorker ==
    \/ ComputeIntersectMessage
    \/ CancelMessage
    \/ OtherMessage
    \/ ReadyResolved
    \/ WaitTimedOut

SpecWorker == InitWorker /\ [][NextWorker]_vars

Terminal == {"result", "error", "cancelled"}

\* the terminal replies posted for a request so far
TerminalReplies(id) ==
    SelectSeq(posted, LAMBDA m : m.id = id /\ m.cmd \in Terminal)

Suspended == {waiting[k].id : k \in 1..Len(waiting)}

\* every request has one terminal reply once its handler has ended, and
\* none before
OneTerminalReply ==
    \A id \in requested :
        Len(TerminalReplies(id)) = IF id \in Suspended THEN 0 ELSE 1

\* C30: a computeIntersect request that was suspended in waitForH5Wasm when
\* a cancel was processed ends with 'cancelled' and never posts 'result',
\* whatever messages arrive before it resumes; and every computeIntersect
\* request posts exactly one terminal reply (result, error or cancelled).
C30_CancelWhileSuspended ==
    /\ \A id \in cancelSeen :
          /\ \A k \in 1..Len(posted) :
                posted[k].id = id => posted[k].cmd # "result"
          /\ id \notin Suspended
                => TerminalReplies(id) = <<Reply("cancelled", id)>>
    /\ OneTerminalReply

=============================================================================
